---- MODULE Spec2Model ----
(***************************************************************************)
(* A model of rsync-go: CreateSignature, CreateDelta and ApplyDelta of     *)
(* src/rsync/rsync.go, and the decode goroutine of patch in src/main.go    *)
(* that feeds ApplyDelta from a delta file; the stream buffer of           *)
(* src/sbuffer/sbuffer.go; the Writer and the Reader of                    *)
(* src/proto/proto.go with the files rdiff writes and reads through them,  *)
(* and patch of src/rdiff/main.go.                                         *)
(*                                                                         *)
(* Specifications.  Spec: the routines of rsync.go on streams that do not  *)
(* fail.  SpecFault: the same routines when one stream operation fails.    *)
(* SpecShared: two concurrent calls of CreateSignature on one RSync.       *)
(* SpecBuffer: a client of the stream buffer.  SpecProto: a client of the  *)
(* Writer and the Reader, and the signature and delta files of rdiff.      *)
(* SpecRoll: the hash step of CreateDelta alone, on long windows.          *)
(* FairSpec and FairDeltaFile: the producer of operations and ApplyDelta   *)
(* under the scheduler, which runs a goroutine that can take a step.       *)
(* SpecCursor: a client of the stream buffer that makes any call.         *)
(* SpecGob: the delta command of src/main.go, with its encoding goroutine. *)
(*                                                                         *)
(* Conventions.                                                            *)
(*  - Go slices are 0-based and half open; the cursors of the model keep   *)
(*    the Go values, and Slice(b, lo, hi) is b[lo:hi].                     *)
(*  - A uint32 weak hash beta = beta1 + 2^16 * beta2 with beta1, beta2 in  *)
(*    0..2^16-1 is written as the pair <<beta1, beta2>>: the two forms     *)
(*    are in bijection, and the pair keeps every value within the integer  *)
(*    range of the model checker.  uint32 arithmetic followed by % _M is   *)
(*    arithmetic modulo 2^16, because 2^16 divides 2^32.                   *)
(*  - The strong hash (MD5 by default) is a collision-free digest that is  *)
(*    never empty.                                                         *)
(*  - The operation channel is unbuffered.  A sender that has sent in one  *)
(*    loop iteration goes on to its next iteration once the receiver has   *)
(*    taken what it sent; ops holds the operations handed over and not yet *)
(*    taken.  A DATA operation carries the bytes its slice of the scan     *)
(*    buffer holds when it is sent.  closed is set by the deferred         *)
(*    close(ops) of the producer, which runs on a return and on a panic.   *)
(*  - sc.hashed and sc.hashTail record whether the last iteration of       *)
(*    CreateDelta made a hash step, and its sum.tail.                      *)
(*  - Streams deliver their bytes without I/O errors, except for the one   *)
(*    operation that fault names, and for the Write of the file under a    *)
(*    Writer that failAt names.                                            *)
(*  - An error is a record: its name, the fields of ErrIncorrectType, and  *)
(*    whether it was raised by panic.  Nil is the nil error.               *)
(*  - The content of a gzip body is not modelled: a gzip Writer puts out   *)
(*    its member when it is closed, and no record or operation is written  *)
(*    to or read from a gzip body.  A Reader that reports io.EOF together  *)
(*    with its last bytes, as the gzip reader does, is eofWithData.        *)
(*  - rdiff is built against a later rsync package than src/rsync: its     *)
(*    operation types OpBlock, OpBlockRange, OpData, OpHash and the hasher *)
(*    it hands to ApplyDelta are taken from the specification.             *)
(***************************************************************************)
EXTENDS Integers, Sequences, FiniteSets, TLC

\* ------------------------------------------------------------- bounds
\* Family "small": every basis, source, block size and MaxDataOp up to these.
MaxBasisLen == 3
MaxSourceLen == 5
MaxBlockSize == 3
MaxMaxDataOp == 2
\* Family "self": the source is the basis itself, up to this length.
MaxSelfLen == 7
\* Family "long": one basis block, then a run of filler bytes, long enough
\* for the scan buffer to wrap with MaxDataOp not a multiple of BlockSize.
LongBlockSize == 4
LongMaxDataOp == 3
MaxFill == 17
\* Family "patch": a delta file of arbitrary operations.
MaxPatchOps == 2
\* Family "tail": a basis of one full block and a short final block of one
\* byte, with block sizes from 2 up to MaxTailBlockSize, and every source of
\* MaxTailLen - 1 or MaxTailLen bytes.
MaxTailBlockSize == 3
MaxTailLen == 8
\* Family "sbuffer": a buffer of up to MaxBufferSize bytes over a stream of up
\* to MaxWireLen bytes, read at most MaxChunk bytes at a time.
MaxWireLen == 5
MaxBufferSize == 3
MaxChunk == 3
\* Family "proto": a client makes up to MaxCalls calls on a Writer and on a
\* Reader; a Write on the file may fail, the MaxFailAt-th at the latest.
MaxCalls == 3
MaxFailAt == 5
\* Families "sigfile" and "deltafile": files of up to MaxRecords signature
\* records and of up to MaxOps operations.
MaxRecords == 3
MaxOps == 3
\* Family "fault": the stream operation that fails is one of the first
\* MaxFaultAt + 1 of its kind.
MaxFaultAt == 2
\* and the basis and the source hold up to MaxFaultLen bytes.
MaxFaultLen == 2
\* Family "gob": the delta command on a basis and a source of up to
\* MaxGobLen bytes, with block sizes up to MaxGobLen.
MaxGobLen == 3
\* Family "shared": two calls on targets of up to MaxTargetLen bytes.
MaxTargetLen == 2

ByteValues == {0, 1}

\* ------------------------------------------------------ program constants
_M == 65536
DefaultBlockSize == 65536
\* Package proto: the magic as its four bytes, big endian; types and
\* compressions; the bounds and sizes of the decoders.
RsyncMagic == <<114, 115, 1, 54>>
TypeSignature == 1
TypeDelta == 2
CompNone == 0
CompGZip == 1
maxHashLength == 6144
maxDataLength == 1048576
leaveTail == 24
opHead == 10
ReaderBufferSize == 32768
hashOpsCap == 2
md5Size == 16
\* byte(op.Type) of the four operation types.
OpBlock == 0
OpBlockRange == 1
OpData == 2
OpHash == 3
\* The header of a gzip member as compress/gzip writes it, and the rest of
\* the member, compressed content that is not modelled.
GzipHeader == <<31, 139, 8, 0, 0, 0, 0, 0, 2, 255>>
GzipRest == <<255>>
\* Block sizes passed to Header in family "proto".
HeaderSizes == {16909060}

\* ---------------------------------------------------------------- helpers
min(a, b) == IF a < b THEN a ELSE b

SeqsUpTo(S, n) == UNION {[1..k -> S] : k \in 0..n}

\* b[lo:hi] of Go, and whether Go accepts the slice expression.
Slice(b, lo, hi) == SubSeq(b, lo + 1, hi)
InBounds(b, lo, hi) == 0 <= lo /\ lo <= hi /\ hi <= Len(b)

\* A faulty variant of ReadAtLeast: a read that meets the end of the stream before n
\* bytes delivers nothing.
ReadAtLeastShort(stream, pos, n) ==
  IF pos + n <= Len(stream) THEN SubSeq(stream, pos + 1, pos + n) ELSE <<>>

\* io.ReadAtLeast(r, buf, n) on a stream positioned at pos, with len(buf) = n:
\* the bytes read.  Fewer than n bytes are read only at the end of the stream
\* (none: io.EOF; some: io.ErrUnexpectedEOF).
ReadAtLeast(stream, pos, n) ==
  SubSeq(stream, pos + 1, min(pos + n, Len(stream)))

\* The sums a and b of betahash over v[lo..hi] (1-based), added up by halves
\* of the range: the loop's terms, in an order that keeps the evaluation
\* shallow for long windows.
RECURSIVE SumOver(_, _, _)
SumOver(v, lo, hi) ==
  IF lo > hi THEN 0
  ELSE IF lo = hi THEN v[lo]
  ELSE SumOver(v, lo, (lo + hi) \div 2) + SumOver(v, ((lo + hi) \div 2) + 1, hi)

RECURSIVE WeightedSumOver(_, _, _)
WeightedSumOver(v, lo, hi) ==
  IF lo > hi THEN 0
  ELSE IF lo = hi THEN ((Len(v) - 1) - (lo - 1) + 1) * v[lo]
  ELSE WeightedSumOver(v, lo, (lo + hi) \div 2)
         + WeightedSumOver(v, ((lo + hi) \div 2) + 1, hi)

SumTo(v, i) == SumOver(v, 1, i)

WeightedSumTo(v, i) == WeightedSumOver(v, 1, i)

\* betahash: beta1 = a % _M and beta2 = b % _M of the sums a and b.
betahash(v) ==
  [b1 |-> SumTo(v, Len(v)) % _M, b2 |-> WeightedSumTo(v, Len(v)) % _M]

\* The uint32 beta = b1 + _M * b2, as the pair.
Beta(h) == <<h.b1, h.b2>>

\* A faulty variant of Roll: beta2 gives up the outgoing byte once, not len times.
RollUnweighted(b1, b2, aPop, aPush, len) ==
  LET n1 == (b1 - aPop + aPush) % _M
      n2 == (b2 - aPop + n1) % _M
  IN [b1 |-> n1, b2 |-> n2]

\* The incremental update of CreateDelta; len is sum.head - sum.tail.
Roll(b1, b2, aPop, aPush, len) ==
  LET n1 == (b1 - aPop + aPush) % _M
      n2 == (b2 - len * aPop + n1) % _M
  IN [b1 |-> n1, b2 |-> n2]

\* RSync.uniqueHash: the digest of v.
uniqueHash(v) == <<"md5", v>>

\* The digest of no bytes at all, len(hashValue) == 0 in findUniqueHash: no
\* hasher returns it.
EmptyHash == <<>>

RECURSIVE findFrom(_, _, _)
findFrom(hh, hashValue, i) ==
  IF i > Len(hh) THEN [index |-> 0, found |-> FALSE]
  ELSE IF hh[i].StrongHash = hashValue THEN [index |-> hh[i].Index, found |-> TRUE]
  ELSE findFrom(hh, hashValue, i + 1)

\* A faulty variant of findUniqueHash: the last entry of the bucket with the strong hash.
RECURSIVE findLastFrom(_, _, _)
findLastFrom(hh, hashValue, i) ==
  IF i = 0 THEN [index |-> 0, found |-> FALSE]
  ELSE IF hh[i].StrongHash = hashValue THEN [index |-> hh[i].Index, found |-> TRUE]
  ELSE findLastFrom(hh, hashValue, i - 1)

findUniqueHashLast(hh, hashValue) ==
  IF hashValue = EmptyHash THEN [index |-> 0, found |-> FALSE]
  ELSE findLastFrom(hh, hashValue, Len(hh))

findUniqueHash(hh, hashValue) ==
  IF hashValue = EmptyHash THEN [index |-> 0, found |-> FALSE]
  ELSE findFrom(hh, hashValue, 1)

\* hashLookup[key] of CreateDelta: the entries of the signature with that weak
\* hash, in the order of the signature list (<<>>: the key is absent).
hashLookup(sig, key) == SelectSeq(sig, LAMBDA h : h.WeakHash = key)

BlockHashCount(targetLength, blockSize) ==
  (targetLength \div blockSize)
    + (IF targetLength % blockSize # 0 THEN 1 ELSE 0)

\* A faulty variant of SeekOffset: off by one block.
SeekOffsetNext(blockSize, blockIndex) == blockSize * (blockIndex + 1)

\* The offset ApplyDelta seeks to for BLOCK(blockIndex).
SeekOffset(blockSize, blockIndex) == blockSize * blockIndex

BlockOp(i) == [Type |-> "BLOCK", BlockIndex |-> i, Data |-> <<>>]
DataOp(d) == [Type |-> "DATA", BlockIndex |-> 0, Data |-> d]

\* ------------------------------------------------- proto: errors, objects
\* Errors of package proto and of the streams, as values.
Err(name) == [name |-> name, Expecting |-> 0, Actual |-> 0, panic |-> FALSE]
Nil == Err("nil")
ErrIncorrectType(expect, actual) ==
  [name |-> "ErrIncorrectType", Expecting |-> expect, Actual |-> actual,
   panic |-> FALSE]

\* A panic of the calling goroutine, with the value it carries.
Panic(name) == [name |-> name, Expecting |-> 0, Actual |-> 0, panic |-> TRUE]

\* A Writer and a Reader as constructed, &proto.Writer{Writer: file}, and a
\* file whose failAt-th Write fails.
NewWriter == [hasHeader |-> FALSE, t |-> 0, body |-> "nil"]
NewReader == [hasHeader |-> FALSE, t |-> 0, body |-> "nil", pos |-> 0, open |-> FALSE]
NewFile(failAt) == [out |-> <<>>, writes |-> 0, failAt |-> failAt, closed |-> FALSE]

\* --------------------------------------------------------------- faults
\* The stream operations of the routines that may fail: the read of the
\* basis in CreateSignature and the call of the signature writer; the read
\* of the source in CreateDelta; the Seek and the read of the basis and the
\* Write of the output in ApplyDelta.
FaultOps == {"sigRead", "sw", "srcRead", "seek", "basisRead", "write"}

\* No stream operation fails.
NoFault == [op |-> "none", at |-> 0, hit |-> FALSE, mark |-> 0]

\* The one operation that fails: the read that starts at offset at of its
\* stream, the call of sw for the record of index at, or the Seek, read or
\* Write that ApplyDelta makes for the operation it receives after at others.
Faults == {[op |-> o, at |-> a, hit |-> FALSE, mark |-> 0] :
             o \in FaultOps, a \in 0..MaxFaultAt}

\* ------------------------------------------------------------------ state
VARIABLES
  mode,        \* "sync": signature, delta, apply; "patch": decode, apply
  basis,       \* the bytes of the basis (target) stream
  source,      \* the bytes of the source stream
  BlockSize,   \* r.BlockSize
  MaxDataOp,   \* r.MaxDataOp
  sigPc,       \* CreateSignature: "loop", "done"; "off" in patch mode
  sigRead,     \* bytes of the basis CreateSignature has read
  index,       \* CreateSignature's index
  signature,   \* the records handed to the SignatureWriter, in order
  deltaPc,     \* CreateDelta: "idle", "loop", "done", "panic"; "off"
  srcRead,     \* bytes of the source CreateDelta has read
  buffer,      \* CreateDelta's buffer
  origin,      \* for each buffer byte, the source offset it was read from
  sc,          \* CreateDelta's locals: data, sum, validTo, prevValidTo, ...
  ops,         \* the operation channel: handed over, not yet taken
  closed,      \* close(ops) has run
  emitted,     \* every operation sent by CreateDelta, with what it stands for
  missed,      \* source offsets of windows whose weak hash hit, strong missed
  applyPc,     \* ApplyDelta: "range", "done"
  received,    \* the operations ApplyDelta has taken, in order
  out,         \* the bytes ApplyDelta has written
  decodePc,    \* patch's decode goroutine: "loop", "done"; "off"
  decoded,     \* operations it has decoded
  wire,        \* the bytes of the stream under an sbuffer (a file's content)
  chunkSize,   \* the most bytes one Read of that stream delivers
  eofWithData, \* its Read reports io.EOF together with the last bytes
  sb,          \* the sbuffer: backer (its filled part), tail, head; the
               \* capacity len(backer); pos, the offset of its Reader
  got,         \* what the last Next returned: buff and err; live: no Next
               \* or Used was called since
  consumed,    \* the bytes passed over by Used, in order
  writer,      \* the proto.Writer: hasHeader, t, body
  wfile,       \* the file under it: the bytes written, the Writes made
  wfn,         \* the writer function the caller of the Writer holds
  wLog,        \* the calls made on the Writer and what they came to
  toWrite,     \* the records or operations still to write to the file
  wrote,       \* those whose write returned nil
  reader,      \* the proto.Reader: hasHeader, t, body; pos, its offset
  rLog,        \* the calls made on the Reader and what they came to
  sigs,        \* what ReadAllSignatures returned
  readOps,     \* the ReadOperations goroutine: pc, loop == false, error
  hashOps,     \* the buffered channel of HASH operations
  delivered,   \* every operation ReadOperations has sent, in order
  patch,       \* rdiff patch: pc, the error it returned, checkFile
  fault,       \* the stream operation that fails: op, at; hit: it has
               \* failed; mark: what the routine had put out when it did
  sigErr,      \* the error CreateSignature returned
  deltaErr,    \* the error CreateDelta returned
  applyErr,    \* the error ApplyDelta returned
  rs,          \* an RSync shared by concurrent calls: BlockSize, UniqueHasher
  given,       \* that RSync as the caller set it up
  hasher,      \* the bytes written to rs.UniqueHasher since its last Reset
  calls        \* the concurrent calls of CreateSignature on rs

vars == <<mode, basis, source, BlockSize, MaxDataOp, sigPc, sigRead, index,
          signature, deltaPc, srcRead, buffer, origin, sc, ops, closed,
          emitted, missed, applyPc, received, out, decodePc, decoded,
          wire, chunkSize, eofWithData, sb, got, consumed,
          writer, wfile, wfn, wLog, toWrite, wrote, reader, rLog, sigs,
          readOps, hashOps,
          delivered, patch, fault, sigErr, deltaErr, applyErr,
          rs, given, hasher, calls>>

inputs == <<mode, basis, source, BlockSize, MaxDataOp>>
sigVars == <<sigPc, sigRead, index, signature>>
deltaVars == <<deltaPc, srcRead, buffer, origin, sc, emitted, missed>>
applyVars == <<applyPc, received, out>>
decodeVars == <<decodePc, decoded>>
readerVars == <<wire, chunkSize, eofWithData>>
bufferVars == <<sb, got, consumed>>
streamVars == <<readerVars, bufferVars>>
writeVars == <<writer, wfile, wfn, wLog, toWrite, wrote>>
readVars == <<reader, rLog, sigs, readOps, hashOps, delivered>>
patchVars == <<patch>>
protoVars == <<writeVars, readVars, patchVars>>
codecVars == <<streamVars, protoVars>>
faultVars == <<fault, sigErr, deltaErr, applyErr>>
sharedVars == <<rs, given, hasher, calls>>
pipeVars == <<inputs, sigVars, deltaVars, ops, closed, applyVars, decodeVars,
              faultVars, sharedVars>>

\* The zero values of CreateDelta's locals; with them hashed, whether the
\* last iteration made a hash step, and hashTail, the value sum.tail had
\* at the last one.
ZeroLocals ==
  [dataTail |-> 0, dataHead |-> 0, sumTail |-> 0, sumHead |-> 0,
   validTo |-> 0, prevValidTo |-> 0, aPop |-> 0, b1 |-> 0, b2 |-> 0,
   rolling |-> FALSE, dirty |-> FALSE, lastRun |-> FALSE,
   hashed |-> FALSE, hashTail |-> 0]

\* sbuffer.NewBuffer(read, bufferSize): an empty buffer over a Reader at its
\* first byte.
NewBuffer(bufferSize) ==
  [backer |-> <<>>, tail |-> 0, head |-> 0, cap |-> bufferSize, pos |-> 0]

NoSlice == [buff |-> <<>>, err |-> "nil", needed |-> 0, live |-> FALSE]

\* No stream is being decoded.
CodecIdle ==
  /\ wire = <<>>
  /\ chunkSize = 1
  /\ eofWithData = FALSE
  /\ sb = NewBuffer(1)
  /\ got = NoSlice
  /\ consumed = <<>>

\* The routines of rsync.go at their first statement, on basis b and source s.
Pipeline(m, b, s, bs, md) ==
  /\ mode = m
  /\ basis = b
  /\ source = s
  /\ BlockSize = bs
  /\ MaxDataOp = md
  /\ sigPc = IF m \in {"sync", "gob"} THEN "loop" ELSE "off"
  /\ sigRead = 0
  /\ index = 0
  /\ signature = <<>>
  /\ deltaPc = IF m \in {"sync", "gob"} THEN "idle" ELSE "off"
  /\ srcRead = 0
  /\ buffer = <<>>
  /\ origin = <<>>
  /\ sc = ZeroLocals
  /\ ops = <<>>
  /\ closed = FALSE
  /\ emitted = <<>>
  /\ missed = {}
  /\ applyPc = "range"
  /\ received = <<>>
  /\ out = <<>>
  /\ decodePc = IF m = "patch" THEN "loop" ELSE "off"
  /\ decoded = 0

\* A Writer on a new file, a Reader, the items to write, and patch.
ProtoStart(failAt, items, pc, checkFile) ==
  /\ writer = NewWriter
  /\ wfile = NewFile(failAt)
  /\ wfn = "none"
  /\ wLog = <<>>
  /\ toWrite = items
  /\ wrote = <<>>
  /\ reader = NewReader
  /\ rLog = <<>>
  /\ sigs = [returned |-> FALSE, bb |-> <<>>, err |-> Nil]
  /\ readOps = [pc |-> "off", last |-> FALSE, err |-> Nil]
  /\ hashOps = <<>>
  /\ delivered = <<>>
  /\ patch = [pc |-> pc, err |-> Nil, checkFile |-> checkFile]

Fails(op, at) == fault.op = op /\ fault.at = at

\* The fault has struck, after the routine had put out n records or bytes.
Struck(n) == [fault EXCEPT !.hit = TRUE, !.mark = n]

\* No routine has returned an error.
NoErrors == sigErr = Nil /\ deltaErr = Nil /\ applyErr = Nil

\* No RSync is shared by concurrent calls.
SharedIdle ==
  /\ rs = [BlockSize |-> 1, UniqueHasher |-> "md5"]
  /\ given = rs
  /\ hasher = <<>>
  /\ calls = <<>>

Start(m, b, s, bs, md) ==
  /\ Pipeline(m, b, s, bs, md) /\ CodecIdle /\ ProtoStart(0, <<>>, "off", FALSE)
  /\ fault = NoFault /\ NoErrors /\ SharedIdle

InitSmall ==
  \E b \in SeqsUpTo(ByteValues, MaxBasisLen), s \in SeqsUpTo(ByteValues, MaxSourceLen),
     bs \in 1..MaxBlockSize, md \in 1..MaxMaxDataOp :
    Start("sync", b, s, bs, md)

InitSelf ==
  \E b \in SeqsUpTo(ByteValues, MaxSelfLen),
     bs \in 1..MaxBlockSize, md \in 1..MaxMaxDataOp :
    Start("sync", b, b, bs, md)

InitLong ==
  \E x \in ByteValues, y \in ByteValues, n \in 0..MaxFill :
    Start("sync", [i \in 1..LongBlockSize |-> x],
          [i \in 1..(LongBlockSize + n) |-> IF i <= LongBlockSize THEN x ELSE y],
          LongBlockSize, LongMaxDataOp)

InitPatch ==
  \E b \in SeqsUpTo(ByteValues, MaxBasisLen), bs \in 1..MaxBlockSize :
    Start("patch", b, <<>>, bs, 1)

InitTail ==
  \E bs \in 2..MaxTailBlockSize, n \in {MaxTailLen - 1, MaxTailLen},
     md \in 1..MaxMaxDataOp :
    \E s \in [1..n -> ByteValues] :
      Start("sync", [i \in 1..(bs + 1) |-> IF i \in {1, bs + 1} THEN 0 ELSE 1],
            s, bs, md)

Init == InitSmall \/ InitSelf \/ InitLong \/ InitPatch \/ InitTail

\* --------------------------------------------------------- CreateSignature
\* One iteration of CreateSignature's loop.
CreateSignatureLoop ==
  /\ sigPc = "loop"
  /\ LET block == ReadAtLeast(basis, sigRead, BlockSize)
         n == Len(block)
     IN IF Fails("sigRead", sigRead)
        THEN \* an error that is not the end of the input: return err
             /\ sigPc' = "done"
             /\ sigErr' = Err(fault.op)
             /\ fault' = Struck(Len(signature))
             /\ UNCHANGED <<sigRead, index, signature>>
        ELSE IF n = 0
        THEN /\ sigPc' = "done"
             /\ UNCHANGED <<sigRead, index, signature, sigErr, fault>>
        ELSE IF Fails("sw", index)
        THEN \* sw returns an error: return err
             /\ sigPc' = "done"
             /\ sigErr' = Err(fault.op)
             /\ fault' = Struck(Len(signature))
             /\ sigRead' = sigRead + n
             /\ UNCHANGED <<index, signature>>
        ELSE /\ signature' = Append(signature,
                    [Index |-> index, StrongHash |-> uniqueHash(block),
                     WeakHash |-> Beta(betahash(block))])
             /\ index' = index + 1
             /\ sigRead' = sigRead + n
             /\ sigPc' = IF n < BlockSize THEN "done" ELSE "loop"
             /\ UNCHANGED <<sigErr, fault>>
  /\ UNCHANGED <<inputs, codecVars, sharedVars, deltaVars, ops, closed, applyVars,
                 decodeVars, deltaErr, applyErr>>

\* ------------------------------------------------------------- CreateDelta
\* CreateDelta up to its loop: the lookup table is hashLookup(signature, _),
\* the locals are zero and the buffer is allocated.
CreateDeltaEnter ==
  /\ deltaPc = "idle"
  /\ sigPc = "done"
  /\ sigErr = Nil
  /\ deltaPc' = "loop"
  /\ buffer' = [i \in 1..((BlockSize * 3) + MaxDataOp) |-> 0]
  /\ origin' = [i \in 1..((BlockSize * 3) + MaxDataOp) |-> -1]
  /\ sc' = ZeroLocals
  /\ UNCHANGED <<inputs, codecVars, sharedVars, faultVars, sigVars, srcRead, emitted,
                 missed, ops, closed, applyVars, decodeVars>>

\* A faulty variant of ReadNothing: the scan goes on after a read of no byte.
ReadNothingNever(n) == FALSE

\* if n == 0 { break }: the refill read no byte.
ReadNothing(n) == n = 0

\* Step 1 of the loop body, the refill: a wrap when the next block does not
\* fit, one io.ReadAtLeast of BlockSize bytes, and on a short or empty read
\* lastRun, dirty and data.head.  stop: the read returned no byte (break).
\* failed: the read returned an error that is not the end of the input.
Refill ==
  LET cap == Len(buffer)
      refill == sc.sumHead >= sc.validTo
      wrap == refill /\ sc.validTo + BlockSize > cap
      validTo0 == IF wrap THEN 0 ELSE sc.validTo
      failed == refill /\ Fails("srcRead", srcRead)
      chunk == IF refill /\ ~failed THEN ReadAtLeast(source, srcRead, BlockSize)
               ELSE <<>>
      n == Len(chunk)
      eof == refill /\ ~failed /\ n < BlockSize
  IN [buf |-> [i \in 1..cap |->
                 IF i > validTo0 /\ i <= validTo0 + n THEN chunk[i - validTo0]
                 ELSE buffer[i]],
      org |-> [i \in 1..cap |->
                 IF i > validTo0 /\ i <= validTo0 + n
                 THEN srcRead + (i - validTo0) - 1
                 ELSE origin[i]],
      n |-> n,
      validTo |-> validTo0 + n,
      prevValidTo |-> IF wrap THEN sc.validTo ELSE sc.prevValidTo,
      sumTail |-> IF wrap THEN 0 ELSE sc.sumTail,
      lastRun |-> eof,
      dirty |-> sc.dirty \/ eof,
      dataTail |-> sc.dataTail,
      dataHead |-> IF eof THEN validTo0 + n ELSE sc.dataHead,
      stop |-> refill /\ ~failed /\ ReadNothing(n),
      failed |-> failed]

\* Steps 2 to 4: the wrap flush of buffer[data.tail:prevValidTo], the window
\* [sum.tail, sum.head) and its weak hash, seeded by betahash when not
\* rolling and updated from aPop and aPush otherwise.  ok: Go accepts the
\* slice and index expressions.
Window(r) ==
  LET wrapFlush == r.dataTail > r.dataHead
      wrapOK == wrapFlush => InBounds(r.buf, r.dataTail, r.prevValidTo)
      sumHead == min(r.sumTail + BlockSize, r.validTo)
      hashOK == IF ~sc.rolling THEN InBounds(r.buf, r.sumTail, sumHead)
                ELSE sumHead - 1 >= 0 /\ sumHead - 1 < Len(r.buf)
  IN [wrapFlush |-> wrapFlush,
      wrapOK |-> wrapOK,
      dataTail |-> IF wrapFlush THEN 0 ELSE r.dataTail,
      sumHead |-> sumHead,
      ok |-> wrapOK /\ hashOK,
      h |-> IF ~(wrapOK /\ hashOK) THEN [b1 |-> 0, b2 |-> 0]
            ELSE IF ~sc.rolling THEN betahash(Slice(r.buf, r.sumTail, sumHead))
            ELSE Roll(sc.b1, sc.b2, sc.aPop, r.buf[sumHead], sumHead - r.sumTail)]

\* A faulty variant of ProbeAllowed: the window of the last run is probed too.
ProbeAllowedOnLastRun(hh, lastRun) == hh # <<>>

\* The condition of the probe: the weak hash has a bucket, and not lastRun.
ProbeAllowed(hh, lastRun) == hh # <<>> /\ ~lastRun

\* Step 5, the match probe: the bucket of the weak hash, and unless lastRun
\* the search of the bucket for the strong hash of the window.
Match(r, w) ==
  LET hh == hashLookup(signature, Beta(w.h))
      probe == w.ok /\ ProbeAllowed(hh, r.lastRun)
      probeOK == probe => InBounds(r.buf, r.sumTail, w.sumHead)
      window == IF probe /\ probeOK THEN Slice(r.buf, r.sumTail, w.sumHead) ELSE <<>>
      hit == IF probe /\ probeOK THEN findUniqueHash(hh, uniqueHash(window))
             ELSE [index |-> 0, found |-> FALSE]
  IN [probe |-> probe, ok |-> probeOK, window |-> window,
      foundHash |-> hit.found, blockIndex |-> hit.index]

\* What one sent operation stands for: the operation, the source offsets of
\* the buffer bytes it covers, and for a BLOCK the bytes of the window.
Sent(op, org, lo, hi, win) == [op |-> op, src |-> Slice(org, lo, hi), window |-> win]

\* Whether the pending literal run is flushed before the match is handled.
FlushDue(r, w, m) ==
  r.dirty /\ (m.foundHash \/ r.dataHead - w.dataTail >= MaxDataOp \/ r.lastRun)

\* Step 6: the DATA flush, then BLOCK and the jump of the cursors on a match,
\* or dirty, aPop and the slide by one byte.  sent: the operations sent, up
\* to a panic if there is one; next: the locals after the iteration.
Emit(r, w, m) ==
  LET flush == FlushDue(r, w, m)
      flushOK == flush => InBounds(r.buf, w.dataTail, r.dataHead)
      popOK == (~m.foundHash /\ ~r.lastRun) => (r.sumTail >= 0 /\ r.sumTail < Len(r.buf))
      wrapSent == IF w.wrapFlush /\ w.wrapOK
                  THEN <<Sent(DataOp(Slice(r.buf, r.dataTail, r.prevValidTo)),
                              r.org, r.dataTail, r.prevValidTo, <<>>)>>
                  ELSE <<>>
      flushSent == IF flush /\ flushOK
                   THEN <<Sent(DataOp(Slice(r.buf, w.dataTail, r.dataHead)),
                               r.org, w.dataTail, r.dataHead, <<>>)>>
                   ELSE <<>>
      blockSent == IF m.foundHash
                   THEN <<Sent(BlockOp(m.blockIndex), r.org, r.sumTail, w.sumHead,
                               m.window)>>
                   ELSE <<>>
      panic == ~(w.ok /\ m.ok /\ flushOK /\ popOK)
      sumTail == IF m.foundHash THEN r.sumTail + BlockSize ELSE r.sumTail + 1
  IN [panic |-> panic,
      sent |-> IF ~w.wrapOK THEN <<>>
               ELSE IF ~(w.ok /\ m.ok /\ flushOK) THEN wrapSent
               ELSE IF ~popOK THEN wrapSent \o flushSent
               ELSE wrapSent \o flushSent \o blockSent,
      next |-> IF panic THEN sc
               ELSE [dataTail |-> IF m.foundHash THEN w.sumHead
                                  ELSE IF flush THEN r.dataHead ELSE w.dataTail,
                     dataHead |-> sumTail,
                     sumTail |-> sumTail,
                     sumHead |-> w.sumHead,
                     validTo |-> r.validTo,
                     prevValidTo |-> r.prevValidTo,
                     aPop |-> IF ~m.foundHash /\ ~r.lastRun THEN r.buf[r.sumTail + 1]
                              ELSE sc.aPop,
                     b1 |-> w.h.b1,
                     b2 |-> w.h.b2,
                     rolling |-> ~m.foundHash,
                     dirty |-> ~m.foundHash,
                     lastRun |-> r.lastRun,
                     hashed |-> TRUE,
                     hashTail |-> r.sumTail]]

\* One iteration of CreateDelta's loop, from the refill to the loop test.
\* A slice or index expression Go rejects panics; what was sent before it
\* in the iteration has been received, and the deferred close(ops) runs
\* while the panic unwinds the goroutine.
CreateDeltaLoop ==
  /\ deltaPc = "loop"
  /\ ops = <<>>
  /\ \E r \in {Refill} :
       /\ srcRead' = srcRead + r.n
       /\ buffer' = r.buf
       /\ origin' = r.org
       /\ IF r.failed
          THEN \* return err; the deferred close(ops) runs
               /\ sc' = [sc EXCEPT !.validTo = r.validTo,
                                   !.prevValidTo = r.prevValidTo,
                                   !.sumTail = r.sumTail, !.hashed = FALSE]
               /\ UNCHANGED <<emitted, missed, ops>>
               /\ deltaPc' = "done"
               /\ closed' = TRUE
               /\ deltaErr' = Err(fault.op)
               /\ fault' = Struck(Len(emitted))
          ELSE IF r.stop
          THEN \* n == 0: break, return nil; the deferred close(ops) runs
               /\ sc' = [sc EXCEPT !.validTo = r.validTo,
                                   !.prevValidTo = r.prevValidTo,
                                   !.sumTail = r.sumTail, !.lastRun = TRUE,
                                   !.dirty = TRUE, !.dataHead = r.dataHead,
                                   !.hashed = FALSE]
               /\ UNCHANGED <<emitted, missed, ops>>
               /\ deltaPc' = "done"
               /\ closed' = TRUE
               /\ UNCHANGED <<deltaErr, fault>>
          ELSE \E w \in {Window(r)} : \E m \in {Match(r, w)} :
                 \E e \in {Emit(r, w, m)} :
                   /\ sc' = e.next
                   /\ emitted' = emitted \o e.sent
                   /\ ops' = [i \in 1..Len(e.sent) |-> e.sent[i].op]
                   /\ missed' = IF ~e.panic /\ m.probe /\ ~m.foundHash
                                THEN missed \cup {r.org[r.sumTail + 1]}
                                ELSE missed
                   /\ deltaPc' = IF e.panic THEN "panic"
                                 ELSE IF r.lastRun THEN "done" ELSE "loop"
                   \* the deferred close(ops) runs on return and on panic
                   /\ closed' = (e.panic \/ r.lastRun)
                   /\ UNCHANGED <<deltaErr, fault>>
  /\ UNCHANGED <<inputs, codecVars, sharedVars, sigVars, applyVars, decodeVars,
                 sigErr, applyErr>>

\* ---------------------------------------------------------------- patch
\* The operations a delta file may hold: a BLOCK for each basis block and for
\* the index after the last one, and some DATA payloads.
PatchPayloads == {<<>>, <<0>>, <<1, 0>>}

PatchOps ==
  {BlockOp(i) : i \in 0..BlockHashCount(Len(basis), BlockSize)}
    \cup {DataOp(d) : d \in PatchPayloads}

\* patch's decode goroutine: one operation decoded from the delta file and
\* sent on ops.
DecodeOp ==
  /\ decodePc = "loop"
  /\ ops = <<>>
  /\ decoded < MaxPatchOps
  /\ \E op \in PatchOps : ops' = <<op>>
  /\ decoded' = decoded + 1
  /\ UNCHANGED <<inputs, codecVars, sharedVars, faultVars, sigVars, deltaVars, closed,
                 applyVars, decodePc>>

\* The decoder reaches io.EOF: the goroutine ends and its deferred close runs.
DecodeEOF ==
  /\ decodePc = "loop"
  /\ ops = <<>>
  /\ decodePc' = "done"
  /\ closed' = TRUE
  /\ UNCHANGED <<inputs, codecVars, sharedVars, faultVars, sigVars, deltaVars, ops,
                 applyVars, decoded>>

\* ------------------------------------------------------------- ApplyDelta
\* Where the basis stands after target.Seek for the k-th operation: at the
\* offset asked for, or anywhere when the Seek fails.  ApplyDelta does not
\* look at what Seek returns.
SeekTo(k, offset) ==
  IF Fails("seek", k) THEN 0..Len(basis) ELSE {offset}

\* One iteration of ApplyDelta's range loop: the operation is received and
\* its bytes are written, or a read or a Write fails and its error is
\* returned.  An empty read (io.EOF) of a BLOCK leaves the switch without a
\* Write.
ApplyDeltaOp ==
  /\ applyPc = "range"
  /\ ops # <<>>
  /\ LET op == Head(ops)
         k == Len(received)
     IN \E pos \in (IF op.Type = "BLOCK"
                    THEN SeekTo(k, SeekOffset(BlockSize, op.BlockIndex)) ELSE {0}) :
          LET seekFailed == op.Type = "BLOCK" /\ Fails("seek", k)
              readFailed == op.Type = "BLOCK" /\ Fails("basisRead", k)
              block == ReadAtLeast(basis, pos, BlockSize)
              bytes == IF op.Type = "BLOCK" THEN block ELSE op.Data
              writes == IF op.Type = "BLOCK" THEN block # <<>> ELSE op.Type = "DATA"
              writeFailed == ~readFailed /\ writes /\ Fails("write", k)
              returns == readFailed \/ writeFailed
          IN /\ out' = IF returns THEN out ELSE out \o bytes
             /\ applyPc' = IF returns THEN "done" ELSE "range"
             /\ applyErr' = IF returns THEN Err(fault.op) ELSE applyErr
             /\ fault' = IF seekFailed \/ readFailed \/ writeFailed
                          THEN Struck(Len(out)) ELSE fault
  /\ received' = Append(received, Head(ops))
  /\ ops' = Tail(ops)
  /\ UNCHANGED <<inputs, codecVars, sharedVars, sigVars, deltaVars, closed, decodeVars,
                 sigErr, deltaErr>>

\* The range loop ends on the closed, drained channel: return nil.
ApplyDeltaReturn ==
  /\ applyPc = "range"
  /\ ops = <<>>
  /\ closed
  /\ applyPc' = "done"
  /\ UNCHANGED <<inputs, codecVars, sharedVars, faultVars, sigVars, deltaVars, ops,
                 closed, received, out, decodeVars>>

Next ==
  \/ CreateSignatureLoop
  \/ CreateDeltaEnter
  \/ CreateDeltaLoop
  \/ DecodeOp
  \/ DecodeEOF
  \/ ApplyDeltaOp
  \/ ApplyDeltaReturn

Spec == Init /\ [][Next]_vars

\* ================================================================ sbuffer
\* One Read(p) of the stream under the buffer, with len(p) = room: at most
\* chunkSize bytes, and io.EOF when no byte is left, or with the last bytes
\* when the Reader reports the end that way.
UpstreamRead(pos, room) ==
  LET n == min(min(room, chunkSize), Len(wire) - pos)
  IN [n |-> n,
      data |-> SubSeq(wire, pos + 1, pos + n),
      err |-> IF pos + n = Len(wire) /\ (n = 0 \/ eofWithData) THEN "EOF" ELSE "nil"]

\* A faulty variant of Compact: the cursors are reset and the bytes stay
\* where they were.
CompactInPlace(b, needed) ==
  IF b.tail + needed > b.cap
  THEN [b EXCEPT !.tail = 0, !.head = b.head - b.tail,
                 !.backer = SubSeq(b.backer, 1, b.head - b.tail)]
  ELSE b

\* The first step of buffer.Next: backer[tail:head] is copied to the front
\* when tail + needed passes the end of backer.
Compact(b, needed) ==
  IF b.tail + needed > b.cap
  THEN [b EXCEPT !.backer = SubSeq(b.backer, b.tail + 1, b.head),
                 !.tail = 0, !.head = b.head - b.tail]
  ELSE b

\* The read loop of buffer.Next: Read into backer[head:] until tail + needed
\* bytes are there or a Read returns an error.
RECURSIVE Fill(_, _)
Fill(b, needed) ==
  IF b.tail + needed > b.head
  THEN LET rd == UpstreamRead(b.pos, b.cap - b.head)
           nb == [b EXCEPT !.backer = b.backer \o rd.data,
                           !.head = b.head + rd.n, !.pos = b.pos + rd.n]
       IN IF rd.err # "nil" THEN [b |-> nb, err |-> rd.err]
          ELSE Fill(nb, needed)
  ELSE [b |-> b, err |-> "nil"]

\* buffer.Next(needed): the buffer after the call, the slice returned and
\* the error; panic: needed > len(backer).
bufferNext(b, needed) ==
  IF needed > b.cap
  THEN [b |-> b, buff |-> <<>>, err |-> "nil", panic |-> TRUE]
  ELSE LET f == Fill(Compact(b, needed), needed)
       IN [b |-> f.b,
           buff |-> Slice(f.b.backer, f.b.tail, min(f.b.tail + needed, f.b.head)),
           err |-> f.err,
           panic |-> FALSE]

\* A variant of Used without its check.
bufferUsedUnchecked(b, used) ==
  [b |-> [b EXCEPT !.tail = b.tail + used], panic |-> FALSE]

\* buffer.Used(used); panic: tail passes head.
bufferUsed(b, used) ==
  [b |-> [b EXCEPT !.tail = b.tail + used], panic |-> b.tail + used > b.head]

\* A caller of the buffer asks for the next needed bytes.
BufferNext ==
  /\ mode = "sbuffer"
  /\ \E needed \in 0..sb.cap : \E nx \in {bufferNext(sb, needed)} :
       /\ sb' = nx.b
       /\ got' = [buff |-> nx.buff, err |-> nx.err, needed |-> needed, live |-> TRUE]
  /\ UNCHANGED <<pipeVars, readerVars, consumed, protoVars>>

\* The caller is done with the first used bytes of the slice it holds.
BufferUsed ==
  /\ mode = "sbuffer"
  /\ got.live
  /\ \E used \in 0..Len(got.buff) :
       /\ sb' = bufferUsed(sb, used).b
       /\ consumed' = consumed \o SubSeq(got.buff, 1, used)
  /\ got' = [got EXCEPT !.live = FALSE]
  /\ UNCHANGED <<pipeVars, readerVars, protoVars>>

InitBuffer ==
  /\ Pipeline("sbuffer", <<>>, <<>>, 1, 1)
  /\ wire \in SeqsUpTo(ByteValues, MaxWireLen)
  /\ chunkSize \in 1..MaxChunk
  /\ eofWithData \in BOOLEAN
  /\ \E bufferSize \in 1..MaxBufferSize : sb = NewBuffer(bufferSize)
  /\ got = NoSlice
  /\ consumed = <<>>
  /\ ProtoStart(0, <<>>, "off", FALSE)
  /\ fault = NoFault /\ NoErrors /\ SharedIdle

NextBuffer == BufferNext \/ BufferUsed

SpecBuffer == InitBuffer /\ [][NextBuffer]_vars

\* ------------------------------------------------------- any client
\* A client that calls Next and Used in any order and with any count from 0
\* up to one more than the call accepts.  got records the last call: fn, its
\* argument (needed or used), the buffer before it, the panic it raised in
\* err, and rooms, the lengths of the slices the read loop gave to Read.
NoCall ==
  [buff |-> <<>>, err |-> "nil", needed |-> 0, live |-> FALSE,
   fn |-> "", used |-> 0, before |-> NewBuffer(0), rooms |-> <<>>]

\* The program has panicked in the buffer.
BufferPanicked == got.err \in {"ErrNeedCap", "ErrUsedTooMuch"}

\* len(b.backer[b.head:]) at each Read of the read loop of buffer.Next.
RECURSIVE ReadRooms(_, _)
ReadRooms(b, needed) ==
  IF b.tail + needed > b.head
  THEN LET rd == UpstreamRead(b.pos, b.cap - b.head)
           nb == [b EXCEPT !.head = b.head + rd.n, !.pos = b.pos + rd.n]
       IN <<b.cap - b.head>> \o (IF rd.err # "nil" THEN <<>> ELSE ReadRooms(nb, needed))
  ELSE <<>>

CallNext ==
  /\ mode = "cursor"
  /\ ~BufferPanicked
  /\ \E needed \in 0..(sb.cap + 1) : \E nx \in {bufferNext(sb, needed)} :
       /\ sb' = nx.b
       /\ got' = [buff |-> nx.buff,
                  err |-> IF nx.panic THEN "ErrNeedCap" ELSE nx.err,
                  needed |-> needed, live |-> ~nx.panic,
                  fn |-> "Next", used |-> 0, before |-> sb,
                  rooms |-> IF nx.panic THEN <<>>
                            ELSE ReadRooms(Compact(sb, needed), needed)]
  /\ UNCHANGED <<pipeVars, readerVars, consumed, protoVars>>

CallUsed ==
  /\ mode = "cursor"
  /\ ~BufferPanicked
  /\ \E used \in 0..(sb.head - sb.tail + 1) : \E u \in {bufferUsed(sb, used)} :
       /\ sb' = u.b
       /\ got' = [buff |-> <<>>,
                  err |-> IF u.panic THEN "ErrUsedTooMuch" ELSE "nil",
                  needed |-> 0, live |-> FALSE,
                  fn |-> "Used", used |-> used, before |-> sb, rooms |-> <<>>]
       /\ consumed' = consumed \o Slice(sb.backer, sb.tail, min(sb.tail + used, sb.head))
  /\ UNCHANGED <<pipeVars, readerVars, protoVars>>

InitCursor ==
  /\ Pipeline("cursor", <<>>, <<>>, 1, 1)
  /\ wire \in SeqsUpTo(ByteValues, MaxWireLen)
  /\ chunkSize \in 1..MaxChunk
  /\ eofWithData \in BOOLEAN
  /\ \E bufferSize \in 0..MaxBufferSize : sb = NewBuffer(bufferSize)
  /\ got = NoCall
  /\ consumed = <<>>
  /\ ProtoStart(0, <<>>, "off", FALSE)
  /\ fault = NoFault /\ NoErrors /\ SharedIdle

NextCursor == CallNext \/ CallUsed

SpecCursor == InitCursor /\ [][NextCursor]_vars

\* ================================================================== proto
\* binary.BigEndian.PutUint32, for v < 2^31, and binary.BigEndian.Uint32.
PutUint32(v) ==
  <<v \div 16777216, (v \div 65536) % 256, (v \div 256) % 256, v % 256>>
Uint32(b) == ((b[1] * 256 + b[2]) * 256 + b[3]) * 256 + b[4]

\* One Write on the file under a Writer: the failAt-th Write fails and
\* writes nothing.
FileWrite(file, bytes) ==
  IF file.writes + 1 = file.failAt
  THEN [file |-> [file EXCEPT !.writes = file.writes + 1], err |-> Err("write error")]
  ELSE [file |-> [file EXCEPT !.writes = file.writes + 1, !.out = file.out \o bytes],
        err |-> Nil]

\* Writes in order, up to the first that fails.
RECURSIVE WriteEach(_, _)
WriteEach(file, fields) ==
  IF fields = <<>> THEN [file |-> file, err |-> Nil]
  ELSE LET wr == FileWrite(file, Head(fields))
       IN IF wr.err # Nil THEN wr ELSE WriteEach(wr.file, Tail(fields))

\* writeHeader: magic, type, compression and block size, one binary.Write each.
writeHeader(file, blockSize, t, compression) ==
  WriteEach(file, <<RsyncMagic, <<t>>, <<compression>>, PutUint32(blockSize)>>)

\* io.ReadFull of n bytes from the stream at pos, as binary.Read does it:
\* io.EOF when no byte is left, io.ErrUnexpectedEOF when fewer than n are.
ReadFull(pos, n) ==
  LET have == min(n, Len(wire) - pos)
  IN [data |-> SubSeq(wire, pos + 1, pos + have),
      pos |-> pos + have,
      err |-> IF have = n THEN Nil
              ELSE IF have = 0 THEN Err("EOF") ELSE Err("ErrUnexpectedEOF")]

\* A faulty variant of TypeMatches: any type is accepted.
TypeMatchesAny(t, expect) == TRUE

\* The type test of readHeader.
TypeMatches(t, expect) == t = expect

\* readHeader: the block size, the compression, the error, and the offset of
\* the stream after it.
readHeader(pos, expect) ==
  LET magic == ReadFull(pos, 4)
      t == ReadFull(magic.pos, 1)
      comp == ReadFull(t.pos, 1)
      blockSizeRead == ReadFull(comp.pos, 4)
      fail(at, e) == [blockSize |-> 0, compression |-> 0, err |-> e, pos |-> at]
  IN IF magic.err # Nil THEN fail(magic.pos, magic.err)
     ELSE IF magic.data # RsyncMagic THEN fail(magic.pos, Err("ErrBadMagic"))
     ELSE IF t.err # Nil THEN fail(t.pos, t.err)
     ELSE IF ~TypeMatches(t.data[1], expect)
          THEN fail(t.pos, ErrIncorrectType(expect, t.data[1]))
     ELSE IF comp.err # Nil THEN fail(comp.pos, comp.err)
     ELSE IF blockSizeRead.err # Nil
          THEN [blockSize |-> 0, compression |-> comp.data[1],
                err |-> blockSizeRead.err, pos |-> blockSizeRead.pos]
     ELSE [blockSize |-> Uint32(blockSizeRead.data), compression |-> comp.data[1],
           err |-> Nil, pos |-> blockSizeRead.pos]

\* gzip.NewReader on the stream at pos: it reads the ten bytes of a gzip
\* member header and checks the first three.
gzipNewReader(pos) ==
  LET hdr == ReadFull(pos, 10)
  IN IF hdr.err # Nil THEN [err |-> hdr.err, pos |-> hdr.pos]
     ELSE IF SubSeq(hdr.data, 1, 3) # SubSeq(GzipHeader, 1, 3)
          THEN [err |-> Err("gzip: invalid header"), pos |-> hdr.pos]
     ELSE [err |-> Nil, pos |-> hdr.pos]

\* A faulty variant of HeaderSeen: only a Header call that succeeded counts.
HeaderSeenOnSuccess(err) == err = Nil

\* Header sets hasHeader before it writes or reads, whatever comes of it.
HeaderSeen(err) == TRUE

\* What one call on the Writer or the Reader came to: the method, its type
\* argument, the error returned or the panic, the bytes of the file it moved,
\* the block size it was given or returned, and the compression it was given.
Call(fn, t, err, moved, blockSize, compression) ==
  [fn |-> fn, t |-> t, err |-> err, moved |-> moved, blockSize |-> blockSize,
   compression |-> compression]

\* A client may make another call on an object that has not panicked.
MayCall(log) ==
  /\ Len(log) < MaxCalls
  /\ \A i \in 1..Len(log) : ~log[i].err.panic

\* binary.PutUvarint and binary.Uvarint (the value and the number of bytes
\* read; 0: the buffer ended first), for values below 2^31.
RECURSIVE PutUvarint(_)
PutUvarint(x) ==
  IF x < 128 THEN <<x>> ELSE <<(x % 128) + 128>> \o PutUvarint(x \div 128)

RECURSIVE UvarintFrom(_, _, _, _)
UvarintFrom(buf, i, x, weight) ==
  IF i > Len(buf) THEN [v |-> 0, n |-> 0]
  ELSE IF buf[i] < 128 THEN [v |-> x + buf[i] * weight, n |-> i]
  ELSE UvarintFrom(buf, i + 1, x + (buf[i] % 128) * weight, weight * 128)

Uvarint(buf) == UvarintFrom(buf, 1, 0, 1)

\* The four bytes of a weak hash, the pair <<beta1, beta2>> of the uint32
\* beta1 + 2^16 * beta2, and the weak hash of four bytes.
PutWeakHash(p) == <<p[2] \div 256, p[2] % 256, p[1] \div 256, p[1] % 256>>
WeakHashOf(b) == <<b[3] * 256 + b[4], b[1] * 256 + b[2]>>

\* An operation of the operation writer and of ReadOperations.
Op(type, blockIndex, blockIndexEnd, data) ==
  [Type |-> type, BlockIndex |-> blockIndex, BlockIndexEnd |-> blockIndexEnd,
   Data |-> data]

\* byte(op.Type), and the type of a tag; "": no type has the tag.
OpByte(type) ==
  CASE type = "BLOCK" -> OpBlock
    [] type = "BLOCK_RANGE" -> OpBlockRange
    [] type = "DATA" -> OpData
    [] type = "HASH" -> OpHash

OpTypeOf(tag) ==
  IF tag = OpBlock THEN "BLOCK"
  ELSE IF tag = OpBlockRange THEN "BLOCK_RANGE"
  ELSE IF tag = OpData THEN "DATA"
  ELSE IF tag = OpHash THEN "HASH"
  ELSE ""

\* w.body.Write(bytes): a nil body panics.
BodyWrite(body, file, bytes) ==
  IF body = "raw" THEN FileWrite(file, bytes)
  ELSE [file |-> file, err |-> Panic("nil pointer dereference")]

\* Writes on the body in order, up to the first that fails.
RECURSIVE BodyWriteEach(_, _, _)
BodyWriteEach(body, file, fields) ==
  IF fields = <<>> THEN [file |-> file, err |-> Nil]
  ELSE LET wr == BodyWrite(body, file, Head(fields))
       IN IF wr.err # Nil THEN wr ELSE BodyWriteEach(body, wr.file, Tail(fields))

\* The function SignatureWriter returns, called with one BlockHash.
signatureWrite(body, file, block) ==
  BodyWriteEach(body, file,
    <<PutUvarint(block.Index) \o PutWeakHash(block.WeakHash)
        \o PutUvarint(Len(block.StrongHash)),
      block.StrongHash>>)

\* The function OperationWriter returns, called with one Operation.
operationWrite(body, file, op) ==
  IF op.Type = "BLOCK"
  THEN BodyWriteEach(body, file, << <<OpByte(op.Type)>> \o PutUvarint(op.BlockIndex) >>)
  ELSE IF op.Type = "BLOCK_RANGE"
  THEN BodyWriteEach(body, file,
         << <<OpByte(op.Type)>> \o PutUvarint(op.BlockIndex)
              \o PutUvarint(op.BlockIndexEnd) >>)
  ELSE BodyWriteEach(body, file,
         << <<OpByte(op.Type)>> \o PutUvarint(Len(op.Data)), op.Data >>)

\* A faulty variant of LastPass: the loop of a decoder ends with the record
\* at which the stream ran out only when that record is empty.
LastPassNever(err) == FALSE

\* The decoders leave their loop after the record they are at when the Next
\* that fetched it returned io.EOF.
LastPass(err) == err = "EOF"

\* One iteration of the loop of ReadAllSignatures on the buffer b.  kind:
\* "record" (block was decoded), "break", "error", "panic".  A Next that
\* returns fewer than hashLen bytes is followed by a Used that panics.
signatureRecord(b) ==
  LET nx == bufferNext(b, leaveTail)
      buff == nx.buff
      idx == Uvarint(buff)
      at1 == idx.n + 4
      len == Uvarint(SubSeq(buff, at1 + 1, Len(buff)))
      at == at1 + len.n
      hashLen == len.v
      u1 == bufferUsed(nx.b, at)
      hx == bufferNext(u1.b, hashLen)
      u2 == bufferUsed(hx.b, hashLen)
      stop(kind, e) == [kind |-> kind, err |-> e, b |-> nx.b, last |-> TRUE,
                        block |-> [Index |-> 0, WeakHash |-> <<0, 0>>, StrongHash |-> <<>>]]
  IN IF nx.err \notin {"nil", "EOF"} THEN stop("error", Err(nx.err))
     ELSE IF Len(buff) = 0 THEN stop("break", Nil)
     ELSE IF idx.n <= 0 THEN stop("panic", Panic("ErrBadVarintRead"))
     ELSE IF Len(buff) < at1 THEN stop("panic", Panic("index out of range"))
     ELSE IF len.n <= 0 THEN stop("panic", Panic("ErrBadVarintRead"))
     ELSE IF hashLen > maxHashLength THEN stop("panic", Panic("ErrHashTooLong"))
     ELSE IF hx.err \notin {"nil", "EOF"} THEN stop("error", Err(hx.err))
     ELSE IF u2.panic THEN stop("panic", Panic("ErrUsedTooMuch"))
     ELSE [kind |-> "record", err |-> Nil, b |-> u2.b,
           last |-> LastPass(nx.err) \/ LastPass(hx.err),
           block |-> [Index |-> idx.v,
                      WeakHash |-> WeakHashOf(SubSeq(buff, idx.n + 1, idx.n + 4)),
                      StrongHash |-> SubSeq(hx.buff, 1, hashLen)]]

\* The loop of ReadAllSignatures: the records appended to bb and the error
\* or panic that ended it.  appendRecord is the rest of an iteration, after
\* rec was decoded.
RECURSIVE signatureRecords(_, _)
appendRecord(rec, bb) ==
  IF rec.kind = "break" THEN [bb |-> bb, err |-> Nil, b |-> rec.b]
  ELSE IF rec.kind # "record" THEN [bb |-> <<>>, err |-> rec.err, b |-> rec.b]
  ELSE IF rec.last THEN [bb |-> Append(bb, rec.block), err |-> Nil, b |-> rec.b]
  ELSE signatureRecords(rec.b, Append(bb, rec.block))

signatureRecords(b, bb) == appendRecord(signatureRecord(b), bb)

\* One iteration of the loop of ReadOperations on the buffer b, up to the
\* send.  kind: "send" (op was decoded), "return", "error", "panic".
operationRecord(b) ==
  LET nx == bufferNext(b, opHead)
      buff == nx.buff
      type == OpTypeOf(buff[1])
      rest == SubSeq(buff, 2, Len(buff))
      v1 == Uvarint(rest)
      v2 == Uvarint(SubSeq(rest, v1.n + 1, Len(rest)))
      at == IF type = "BLOCK_RANGE" THEN 1 + v1.n + v2.n ELSE 1 + v1.n
      dataLen == v1.v
      u1 == bufferUsed(nx.b, at)
      dx == bufferNext(u1.b, dataLen)
      u2 == bufferUsed(dx.b, dataLen)
      stop(kind, e) == [kind |-> kind, err |-> e, b |-> nx.b, last |-> TRUE,
                        op |-> Op("", 0, 0, <<>>)]
  IN IF Len(buff) = 0 THEN stop("return", Nil)
     ELSE IF nx.err \notin {"nil", "EOF"} THEN stop("error", Err(nx.err))
     ELSE IF type = "" THEN stop("panic", Panic("Unreachable."))
     ELSE IF v1.n <= 0 THEN stop("panic", Panic("ErrBadVarintRead"))
     ELSE IF type = "BLOCK"
          THEN [kind |-> "send", err |-> Nil, b |-> u1.b, last |-> LastPass(nx.err),
                op |-> Op(type, v1.v, 0, <<>>)]
     ELSE IF type = "BLOCK_RANGE"
          THEN IF v2.n <= 0 THEN stop("panic", Panic("ErrBadVarintRead"))
               ELSE [kind |-> "send", err |-> Nil, b |-> u1.b,
                     last |-> LastPass(nx.err), op |-> Op(type, v1.v, v2.v, <<>>)]
     ELSE IF dataLen > maxDataLength THEN stop("panic", Panic("ErrDataTooLong"))
     ELSE IF dx.panic THEN stop("panic", Panic("ErrNeedCap"))
     ELSE IF dx.err \notin {"nil", "EOF"} THEN stop("error", Err(dx.err))
     ELSE IF u2.panic THEN stop("panic", Panic("ErrUsedTooMuch"))
     ELSE [kind |-> "send", err |-> Nil, b |-> u2.b,
           last |-> LastPass(nx.err) \/ LastPass(dx.err),
           op |-> Op(type, 0, 0, SubSeq(dx.buff, 1, dataLen))]

\* hasher.Sum(nil) of an MD5 hasher that was written v: sixteen bytes, and
\* different ones for different v (of up to fifteen bytes).
md5Sum(v) ==
  [i \in 1..md5Size |-> IF i = 1 THEN Len(v) ELSE IF i - 1 <= Len(v) THEN 1 + v[i - 1] ELSE 0]

\* ------------------------------------------------------------ the files
\* The records and operations written in the families of the model.
ProtoHashes ==
  {[Index |-> 0, WeakHash |-> <<258, 772>>, StrongHash |-> <<7>>]}
ProtoOps == {Op("BLOCK", 1, 0, <<>>)}

FileHashes ==
  {[Index |-> 0, WeakHash |-> <<0, 0>>, StrongHash |-> <<>>],
   [Index |-> 200, WeakHash |-> <<258, 772>>, StrongHash |-> <<7>>],
   [Index |-> 1, WeakHash |-> <<65535, 1>>, StrongHash |-> md5Sum(<<1>>)]}

FileOps ==
  {Op("BLOCK", 0, 0, <<>>), Op("BLOCK_RANGE", 0, 200, <<>>),
   Op("DATA", 0, 0, <<1, 0>>),
   Op("HASH", 0, 0, md5Sum(<<1, 0>>)), Op("HASH", 0, 0, <<9>>)}

\* How the file is read back: Reads of one byte, or Reads that fill the
\* buffer, with io.EOF alone or together with the last bytes.
Readings ==
  {[chunkSize |-> 1, eofWithData |-> FALSE],
   [chunkSize |-> ReaderBufferSize, eofWithData |-> FALSE],
   [chunkSize |-> ReaderBufferSize, eofWithData |-> TRUE]}

ForeignFiles == {<<114, 115, 1, 55, 1, 0, 0, 0, 0, 1>>, <<114, 115>>}

\* ------------------------------------------------------ Writer and Reader
ProtoModes == {"proto", "sigfile", "deltafile"}

\* The type of stream a file of rdiff holds.
FileType == IF mode = "sigfile" THEN TypeSignature ELSE TypeDelta

\* The arguments of a Header call on the Writer: any in mode "proto"; those
\* of rdiff's signature and delta in the file modes.
HeaderArgs ==
  IF mode = "proto"
  THEN {[t |-> t, c |-> c, bs |-> bs] :
          t \in {TypeSignature, TypeDelta}, c \in {CompNone, CompGZip, CompGZip + 1},
          bs \in HeaderSizes}
  ELSE {[t |-> FileType, c |-> CompNone, bs |-> bs] : bs \in 1..MaxBlockSize}

\* Writer.Header(t, compression, blockSize).
WriterHeader ==
  /\ mode \in ProtoModes
  /\ MayCall(wLog)
  /\ ~wfile.closed /\ ~reader.open
  /\ mode # "proto" => wLog = <<>>
  /\ \E a \in HeaderArgs :
       IF writer.hasHeader
       THEN /\ wLog' = Append(wLog, Call("Header", a.t, Err("ErrHeaderOnce"), 0, a.bs, a.c))
            /\ UNCHANGED <<writer, wfile>>
       ELSE \E h \in {writeHeader(wfile, a.bs, a.t, a.c)} :
              \E err \in {IF h.err # Nil THEN h.err
                          ELSE IF a.c \in {CompNone, CompGZip} THEN Nil
                          ELSE Err("ErrUnknownCompression")} :
                /\ writer' = [hasHeader |-> HeaderSeen(err), t |-> a.t,
                         body |-> IF h.err # Nil THEN "nil"
                                  ELSE IF a.c = CompNone THEN "raw"
                                  ELSE IF a.c = CompGZip THEN "gzip" ELSE "nil"]
                /\ wfile' = h.file
                /\ wLog' = Append(wLog, Call("Header", a.t, err,
                                             Len(h.file.out) - Len(wfile.out),
                                             a.bs, a.c))
  /\ UNCHANGED <<pipeVars, streamVars, wfn, toWrite, wrote, readVars, patchVars>>

\* Writer.SignatureWriter(): the writer function, or the panic.
WriterSignatureWriter ==
  /\ mode \in {"proto", "sigfile"}
  /\ MayCall(wLog)
  /\ ~wfile.closed /\ ~reader.open
  /\ mode # "proto" => Len(wLog) = 1 /\ wLog[1].err = Nil
  /\ IF writer.t # TypeSignature
     THEN /\ wLog' = Append(wLog, Call("SignatureWriter", TypeSignature,
                                       Panic("ErrInvalidCall"), 0, 0, 0))
          /\ UNCHANGED wfn
     ELSE /\ wLog' = Append(wLog, Call("SignatureWriter", TypeSignature, Nil, 0, 0, 0))
          /\ wfn' = "SignatureWriter"
  /\ UNCHANGED <<pipeVars, streamVars, writer, wfile, toWrite, wrote, readVars, patchVars>>

\* Writer.OperationWriter(): the writer function, or the panic.
WriterOperationWriter ==
  /\ mode \in {"proto", "deltafile"}
  /\ MayCall(wLog)
  /\ ~wfile.closed /\ ~reader.open
  /\ mode # "proto" => Len(wLog) = 1 /\ wLog[1].err = Nil
  /\ IF writer.t # TypeDelta
     THEN /\ wLog' = Append(wLog, Call("OperationWriter", TypeDelta,
                                       Panic("ErrInvalidCall"), 0, 0, 0))
          /\ UNCHANGED wfn
     ELSE /\ wLog' = Append(wLog, Call("OperationWriter", TypeDelta, Nil, 0, 0, 0))
          /\ wfn' = "OperationWriter"
  /\ UNCHANGED <<pipeVars, streamVars, writer, wfile, toWrite, wrote, readVars, patchVars>>

\* One call of the writer function the caller holds: with the next record or
\* operation of the file in the file modes, with any in mode "proto".
WriterWrite ==
  /\ mode \in ProtoModes
  /\ wfn # "none"
  /\ ~wfile.closed /\ ~reader.open
  /\ writer.body # "gzip"
  /\ IF mode = "proto" THEN MayCall(wLog) ELSE toWrite # <<>>
  /\ \E item \in (IF mode # "proto" THEN {Head(toWrite)}
                  ELSE IF wfn = "SignatureWriter" THEN ProtoHashes ELSE ProtoOps) :
       \E wr \in {IF wfn = "SignatureWriter" THEN signatureWrite(writer.body, wfile, item)
                   ELSE operationWrite(writer.body, wfile, item)} :
         /\ wfile' = wr.file
         /\ wLog' = IF mode = "proto"
                    THEN Append(wLog, Call("write", writer.t, wr.err,
                                           Len(wr.file.out) - Len(wfile.out), 0, 0))
                    ELSE wLog
         /\ wrote' = IF wr.err = Nil THEN Append(wrote, item) ELSE wrote
  /\ toWrite' = IF mode = "proto" THEN toWrite ELSE Tail(toWrite)
  /\ UNCHANGED <<pipeVars, streamVars, writer, wfn, readVars, patchVars>>

\* Writer.Close() and the Close of the file: a gzip body writes its member,
\* a header and the compressed content.
WriterClose ==
  /\ mode \in ProtoModes
  /\ ~wfile.closed /\ ~reader.open
  /\ mode # "proto" => wfn # "none" /\ toWrite = <<>>
  /\ wfile' = [wfile EXCEPT !.closed = TRUE,
                            !.out = IF writer.body = "gzip" THEN wfile.out \o GzipHeader \o GzipRest
                                    ELSE wfile.out]
  /\ UNCHANGED <<pipeVars, streamVars, writer, wfn, wLog, toWrite, wrote, readVars, patchVars>>

\* os.Open of the file to read: the file written, or in mode "proto" what
\* the Writer has put out so far or a file that is no rsync stream.
ReaderOpen ==
  /\ mode \in ProtoModes
  /\ ~reader.open
  /\ \E f \in (IF mode = "proto" THEN {wfile.out} \cup ForeignFiles ELSE {wfile.out}) :
       wire' = f
  /\ mode # "proto" => wfile.closed
  /\ reader' = [reader EXCEPT !.open = TRUE]
  /\ UNCHANGED <<pipeVars, chunkSize, eofWithData, bufferVars, writeVars, rLog, sigs,
                 readOps, hashOps, delivered, patchVars>>

\* Reader.Header(t).  In rdiff the block size returned becomes rs.BlockSize.
ReaderHeader ==
  /\ mode \in ProtoModes
  /\ reader.open
  /\ MayCall(rLog)
  /\ mode # "proto" => rLog = <<>>
  /\ \E t \in (IF mode = "proto" THEN {TypeSignature, TypeDelta} ELSE {FileType}) :
       IF reader.hasHeader
       THEN /\ rLog' = Append(rLog, Call("Header", t, Err("ErrHeaderOnce"), 0, 0, 0))
            /\ UNCHANGED <<reader, BlockSize>>
       ELSE \E h \in {readHeader(reader.pos, t)} :
              \E gz \in {IF h.err = Nil /\ h.compression = CompGZip
                         THEN gzipNewReader(h.pos) ELSE [err |-> Nil, pos |-> h.pos]} :
                \E err \in {IF h.err # Nil THEN h.err
                            ELSE IF h.compression = CompNone THEN Nil
                            ELSE IF h.compression = CompGZip THEN gz.err
                            ELSE Err("ErrUnknownCompression")} :
                  /\ reader' = [reader EXCEPT !.hasHeader = HeaderSeen(err), !.t = t,
                                    !.pos = gz.pos,
                                    !.body = IF err # Nil THEN "nil"
                                             ELSE IF h.compression = CompNone THEN "raw"
                                             ELSE "gzip"]
                  /\ rLog' = Append(rLog, Call("Header", t, err, gz.pos - reader.pos,
                                               h.blockSize, 0))
                  /\ BlockSize' = IF mode = "proto" THEN BlockSize ELSE h.blockSize
  /\ UNCHANGED <<mode, basis, source, MaxDataOp, sigVars, deltaVars, ops, closed,
                 applyVars, decodeVars, streamVars, writeVars, sigs, readOps, hashOps,
                 delivered, patchVars, faultVars, sharedVars>>

\* Reader.ReadAllSignatures(): the records, the error or the panic.
ReaderReadAllSignatures ==
  /\ mode \in {"proto", "sigfile"}
  /\ reader.open
  /\ MayCall(rLog)
  /\ reader.body # "gzip"
  /\ mode # "proto" => Len(rLog) = 1 /\ rLog[1].err = Nil
  /\ IF reader.t # TypeSignature
     THEN /\ rLog' = Append(rLog, Call("ReadAllSignatures", TypeSignature,
                                       Panic("ErrInvalidCall"), 0, 0, 0))
          /\ UNCHANGED <<sb, sigs>>
     ELSE IF reader.body = "nil"
     THEN /\ rLog' = Append(rLog, Call("ReadAllSignatures", TypeSignature,
                                       Panic("nil pointer dereference"), 0, 0, 0))
          /\ UNCHANGED <<sb, sigs>>
     ELSE \E res \in {signatureRecords([NewBuffer(ReaderBufferSize) EXCEPT !.pos = reader.pos],
                                      <<>>)} :
            /\ sb' = res.b
            /\ sigs' = [returned |-> TRUE, bb |-> res.bb, err |-> res.err]
            /\ rLog' = Append(rLog, Call("ReadAllSignatures", TypeSignature, res.err,
                                         res.b.pos - reader.pos, 0, 0))
  /\ UNCHANGED <<pipeVars, readerVars, got, consumed, writeVars, reader, readOps, hashOps,
                 delivered, patchVars>>

\* go ReadOperations(ops, hashOps), as patch starts it: the panic on the
\* wrong type, or the goroutine with its buffer at the start of its loop.
ReaderReadOperations ==
  /\ mode \in {"proto", "deltafile"}
  /\ reader.open
  /\ MayCall(rLog)
  /\ reader.body # "gzip"
  /\ readOps.pc = "off"
  /\ mode # "proto" => Len(rLog) = 1 /\ rLog[1].err = Nil
  /\ IF reader.t # TypeDelta
     THEN /\ rLog' = Append(rLog, Call("ReadOperations", TypeDelta,
                                       Panic("ErrInvalidCall"), 0, 0, 0))
          /\ UNCHANGED <<sb, readOps>>
     ELSE IF reader.body = "nil"
     THEN /\ rLog' = Append(rLog, Call("ReadOperations", TypeDelta,
                                       Panic("nil pointer dereference"), 0, 0, 0))
          /\ UNCHANGED <<sb, readOps>>
     ELSE /\ sb' = [NewBuffer(ReaderBufferSize) EXCEPT !.pos = reader.pos]
          /\ readOps' = [readOps EXCEPT !.pc = "loop"]
          /\ rLog' = Append(rLog, Call("ReadOperations", TypeDelta, Nil, 0, 0, 0))
  /\ UNCHANGED <<pipeVars, readerVars, got, consumed, writeVars, reader, sigs, hashOps,
                 delivered, patchVars>>

\* ---------------------------------------------------------- rdiff patch
\* What the hasher handed to ApplyDelta holds when it returns: the digest
\* of every byte written to the output.
AppliedSum == md5Sum(out)

\* One iteration of the loop of ReadOperations, with its send; or its return
\* and the deferred close(ops) of the goroutine.
ReadOperationsLoop ==
  /\ mode = "deltafile"
  /\ readOps.pc = "loop"
  /\ ops = <<>>
  /\ IF readOps.last
     THEN /\ readOps' = [readOps EXCEPT !.pc = "done"]
          /\ closed' = TRUE
          /\ UNCHANGED <<sb, ops, hashOps, delivered>>
     ELSE \E it \in {operationRecord(sb)} :
            /\ sb' = it.b
            /\ IF it.kind = "send"
               THEN /\ it.op.Type = "HASH" => Len(hashOps) < hashOpsCap
                    /\ readOps' = [readOps EXCEPT !.last = it.last]
                    /\ hashOps' = IF it.op.Type = "HASH" THEN Append(hashOps, it.op)
                                  ELSE hashOps
                    /\ ops' = IF it.op.Type = "HASH" THEN ops ELSE <<it.op>>
                    /\ delivered' = Append(delivered, it.op)
                    /\ UNCHANGED closed
               ELSE /\ readOps' = [readOps EXCEPT !.pc = IF it.kind = "panic" THEN "panic" ELSE "done",
                                        !.err = it.err]
                    \* the deferred close(ops) runs on return and on panic
                    /\ closed' = TRUE
                    /\ UNCHANGED <<ops, hashOps, delivered>>
  /\ UNCHANGED <<inputs, sigVars, deltaVars, applyVars, decodeVars, readerVars, got,
                 consumed, writeVars, reader, rLog, sigs, patchVars, faultVars,
                 sharedVars>>

\* patch after ApplyDelta has returned nil: the decode error, or nil without
\* -check, or the receive from hashOps and the comparison of the digests.
\* hashOps is never closed, so the receive waits for a HASH operation; the
\* Data of a decoded operation is made of its length and is never nil, so
\* the test that returns NoTargetSumError never passes.
PatchReturn ==
  /\ mode = "deltafile"
  /\ patch.pc = "run"
  /\ readOps.pc = "done"
  /\ applyPc = "done"
  /\ IF readOps.err # Nil
     THEN patch' = [patch EXCEPT !.pc = "done", !.err = readOps.err] /\ UNCHANGED hashOps
     ELSE IF ~patch.checkFile
     THEN patch' = [patch EXCEPT !.pc = "done", !.err = Nil] /\ UNCHANGED hashOps
     ELSE /\ hashOps # <<>>
          /\ hashOps' = Tail(hashOps)
          /\ patch' = [patch EXCEPT !.pc = "done",
                                    !.err = IF Head(hashOps).Data # AppliedSum
                                            THEN Err("HashNoMatchError") ELSE Nil]
  /\ UNCHANGED <<pipeVars, streamVars, writeVars, reader, rLog, sigs, readOps, delivered>>

\* A client of package proto that calls the methods in any order.
InitProto ==
  /\ Pipeline("proto", <<>>, <<>>, 1, 1)
  /\ wire = <<>>
  /\ chunkSize = ReaderBufferSize
  /\ eofWithData = FALSE
  /\ sb = NewBuffer(1) /\ got = NoSlice /\ consumed = <<>>
  /\ \E failAt \in {0, 2, MaxFailAt} : ProtoStart(failAt, <<>>, "off", FALSE)
  /\ fault = NoFault /\ NoErrors /\ SharedIdle

\* rdiff signature writes a signature file and rdiff delta reads it.
InitSigFile ==
  /\ Pipeline("sigfile", <<>>, <<>>, 1, 1)
  /\ wire = <<>>
  /\ \E rg \in Readings : chunkSize = rg.chunkSize /\ eofWithData = rg.eofWithData
  /\ sb = NewBuffer(1) /\ got = NoSlice /\ consumed = <<>>
  /\ \E items \in SeqsUpTo(FileHashes, MaxRecords) : ProtoStart(0, items, "off", FALSE)
  /\ fault = NoFault /\ NoErrors /\ SharedIdle

\* rdiff delta writes a delta file and rdiff patch applies it to a basis.
InitDeltaFile ==
  /\ Pipeline("deltafile", <<0, 1>>, <<>>, 1, 1)
  /\ wire = <<>>
  /\ \E rg \in Readings : chunkSize = rg.chunkSize /\ eofWithData = rg.eofWithData
  /\ sb = NewBuffer(1) /\ got = NoSlice /\ consumed = <<>>
  /\ \E items \in SeqsUpTo(FileOps, MaxOps), c \in BOOLEAN :
       ProtoStart(0, items, "run", c)
  /\ fault = NoFault /\ NoErrors /\ SharedIdle

\* Files of one long record.  A signature file with a strong hash of
\* maxHashLength bytes or one more, written by the Writer.  A delta file that
\* ends after the head of a DATA or HASH operation, which declares one byte
\* more than the buffer of the decoder holds, or than maxDataLength:
\* ReadOperations calls Next(dataLen), and Next panics or returns on its
\* first statement, before any of the data is read.
LongHashLens == {maxHashLength, maxHashLength + 1}
LongDataLens == {ReaderBufferSize + 1, maxDataLength + 1}

InitLongRecord ==
  /\ wire = <<>>
  /\ chunkSize = ReaderBufferSize /\ eofWithData = FALSE
  /\ sb = NewBuffer(1) /\ got = NoSlice /\ consumed = <<>>
  /\ fault = NoFault /\ NoErrors /\ SharedIdle
  /\ \/ /\ Pipeline("sigfile", <<>>, <<>>, 1, 1)
        /\ \E n \in LongHashLens :
             ProtoStart(0, <<[Index |-> 0, WeakHash |-> <<0, 0>>,
                              StrongHash |-> [i \in 1..n |-> 0]]>>, "off", FALSE)
     \/ /\ Pipeline("deltafile", <<0, 1>>, <<>>, 1, 1)
        /\ writer = NewWriter /\ wfn = "none" /\ wLog = <<>>
        /\ toWrite = <<>> /\ wrote = <<>>
        /\ \E n \in LongDataLens, type \in {"DATA", "HASH"} :
             wfile = [NewFile(0) EXCEPT
                        !.out = writeHeader(NewFile(0), 1, TypeDelta, CompNone).file.out
                                  \o <<OpByte(type)>> \o PutUvarint(n),
                        !.closed = TRUE]
        /\ reader = NewReader /\ rLog = <<>>
        /\ sigs = [returned |-> FALSE, bb |-> <<>>, err |-> Nil]
        /\ readOps = [pc |-> "off", last |-> FALSE, err |-> Nil]
        /\ hashOps = <<>> /\ delivered = <<>>
        /\ patch = [pc |-> "run", err |-> Nil, checkFile |-> FALSE]

NextProto ==
  \/ WriterHeader
  \/ WriterSignatureWriter
  \/ WriterOperationWriter
  \/ WriterWrite
  \/ WriterClose
  \/ ReaderOpen
  \/ ReaderHeader
  \/ ReaderReadAllSignatures
  \/ ReaderReadOperations
  \/ ReadOperationsLoop
  \/ ApplyDeltaOp
  \/ ApplyDeltaReturn
  \/ PatchReturn

SpecProto ==
  (InitProto \/ InitSigFile \/ InitDeltaFile \/ InitLongRecord) /\ [][NextProto]_vars

\* ------------------------------------------------------------- faults
\* The routines on streams of which one operation fails: CreateSignature,
\* CreateDelta and ApplyDelta in a row, and ApplyDelta fed by patch.
InitFault ==
  \/ \E b \in SeqsUpTo(ByteValues, MaxFaultLen), s \in SeqsUpTo(ByteValues, MaxFaultLen),
        bs \in 1..MaxFaultLen, f \in Faults :
       /\ Pipeline("sync", b, s, bs, 1) /\ CodecIdle /\ ProtoStart(0, <<>>, "off", FALSE)
       /\ fault = f /\ NoErrors /\ SharedIdle
  \/ \E b \in SeqsUpTo(ByteValues, MaxFaultLen), bs \in 1..MaxFaultLen, f \in Faults :
       /\ f.op \in {"seek", "basisRead", "write"}
       /\ Pipeline("patch", b, <<>>, bs, 1) /\ CodecIdle /\ ProtoStart(0, <<>>, "off", FALSE)
       /\ fault = f /\ NoErrors /\ SharedIdle

SpecFault == InitFault /\ [][Next]_vars

\* ------------------------------------------- concurrent CreateSignature
\* Two goroutines call CreateSignature on one RSync.  The steps of a call:
\* "enter", the defaults; "read", io.ReadAtLeast; then uniqueHash on the
\* block, "reset", "write" and "sum" on r.UniqueHasher, and the call of sw.
NewCall(target) ==
  [target |-> target, pc |-> "enter", pos |-> 0, block |-> <<>>, index |-> 0,
   sigs |-> <<>>]

\* if r.BlockSize <= 0 and if r.UniqueHasher == nil: the defaults are stored
\* in the RSync.
CallEnter(k) ==
  /\ calls[k].pc = "enter"
  /\ rs' = [BlockSize |-> IF rs.BlockSize <= 0 THEN DefaultBlockSize ELSE rs.BlockSize,
            UniqueHasher |-> "md5"]
  /\ hasher' = IF rs.UniqueHasher = "nil" THEN <<>> ELSE hasher
  /\ calls' = [calls EXCEPT ![k].pc = "read"]
  /\ UNCHANGED given

\* io.ReadAtLeast(target, buffer, r.BlockSize): io.EOF returns nil.
CallRead(k) ==
  /\ calls[k].pc = "read"
  /\ \E block \in {ReadAtLeast(calls[k].target, calls[k].pos, rs.BlockSize)} :
       calls' = [calls EXCEPT ![k].pc = IF block = <<>> THEN "done" ELSE "reset",
                              ![k].block = block,
                              ![k].pos = calls[k].pos + Len(block)]
  /\ UNCHANGED <<rs, given, hasher>>

\* r.UniqueHasher.Reset()
HasherReset(k) ==
  /\ calls[k].pc = "reset"
  /\ hasher' = <<>>
  /\ calls' = [calls EXCEPT ![k].pc = "write"]
  /\ UNCHANGED <<rs, given>>

\* r.UniqueHasher.Write(v)
HasherWrite(k) ==
  /\ calls[k].pc = "write"
  /\ hasher' = hasher \o calls[k].block
  /\ calls' = [calls EXCEPT ![k].pc = "sum"]
  /\ UNCHANGED <<rs, given>>

\* r.UniqueHasher.Sum(nil), the digest of what the hasher was written, and
\* the call of sw with the record; a short block was the last.
HasherSum(k) ==
  /\ calls[k].pc = "sum"
  /\ calls' = [calls EXCEPT
       ![k].sigs = Append(calls[k].sigs,
                          [Index |-> calls[k].index, StrongHash |-> uniqueHash(hasher),
                           WeakHash |-> Beta(betahash(calls[k].block))]),
       ![k].index = calls[k].index + 1,
       ![k].pc = IF Len(calls[k].block) < rs.BlockSize THEN "done" ELSE "read"]
  /\ UNCHANGED <<rs, given, hasher>>

InitShared ==
  /\ Pipeline("shared", <<>>, <<>>, 1, 1) /\ CodecIdle /\ ProtoStart(0, <<>>, "off", FALSE)
  /\ fault = NoFault /\ NoErrors
  /\ rs \in [BlockSize : {0, 1}, UniqueHasher : {"nil", "md5"}]
  /\ given = rs
  /\ hasher = <<>>
  /\ \E t1 \in SeqsUpTo(ByteValues, MaxTargetLen), t2 \in SeqsUpTo(ByteValues, MaxTargetLen) :
       calls = <<NewCall(t1), NewCall(t2)>>

NextShared ==
  /\ mode = "shared"
  /\ \E k \in 1..Len(calls) :
       \/ CallEnter(k)
       \/ CallRead(k)
       \/ HasherReset(k)
       \/ HasherWrite(k)
       \/ HasherSum(k)
  /\ UNCHANGED <<inputs, sigVars, deltaVars, ops, closed, applyVars, decodeVars,
                 faultVars, codecVars>>

SpecShared == InitShared /\ [][NextShared]_vars

\* ------------------------------------------------------------ scheduling
\* The goroutines under the scheduler of Go: a goroutine that can take a
\* step is run, so the program does not stand still while a step of the
\* producer or of the consumer is possible.
FairSpec == Spec /\ WF_vars(Next)

\* rdiff delta followed by rdiff patch: the delta file is written, then the
\* goroutine of patch decodes it while ApplyDelta applies it.
NextDeltaFile ==
  \/ WriterHeader
  \/ WriterOperationWriter
  \/ WriterWrite
  \/ WriterClose
  \/ ReaderOpen
  \/ ReaderHeader
  \/ ReaderReadOperations
  \/ ReadOperationsLoop
  \/ ApplyDeltaOp
  \/ ApplyDeltaReturn
  \/ PatchReturn

\* ReadOperationsLoop can take its step: the goroutine is in its loop, the
\* operation it sent last was received, and the operation it decodes next is
\* not a HASH operation for a full hashOps.
CanDecode ==
  /\ mode = "deltafile" /\ readOps.pc = "loop" /\ ops = <<>>
  /\ readOps.last
       \/ LET it == operationRecord(sb)
          IN (it.kind = "send" /\ it.op.Type = "HASH") => Len(hashOps) < hashOpsCap

\* Weak fairness of the main goroutine, which writes the file, opens it and
\* then runs ApplyDelta and the end of patch, and of the decoding goroutine
\* (WF_vars(ReadOperationsLoop), with its enabling condition written out).
FairDeltaFile ==
  /\ InitDeltaFile /\ [][NextDeltaFile]_vars
  /\ WF_vars(WriterHeader \/ WriterOperationWriter \/ WriterWrite \/ WriterClose
               \/ ReaderOpen \/ ReaderHeader \/ ReaderReadOperations
               \/ ApplyDeltaOp \/ ApplyDeltaReturn \/ PatchReturn)
  /\ ([]<>(~CanDecode) \/ []<><<ReadOperationsLoop>>_vars)

\* ------------------------------------------------- the gob delta command
\* delta of src/main.go: CreateDelta sends on ops, a goroutine ranges over
\* ops and encodes each operation to the delta file, and delta returns what
\* CreateDelta returns; its deferred deltaFile.Close() runs then.  In this
\* family applyPc is the position of the encoding goroutine ("range": at the
\* receive, "encode": it holds an operation, "done": the range has ended),
\* received the operations it took from ops, wrote the operations encoded
\* into the delta file, and wfile.closed whether delta has returned.
InitGob ==
  \E b \in SeqsUpTo(ByteValues, MaxGobLen), s \in SeqsUpTo(ByteValues, MaxGobLen),
     bs \in 1..MaxGobLen :
    Start("gob", b, s, bs, 1)

\* for op := range ops: the goroutine receives an operation.
EncoderReceive ==
  /\ mode = "gob"
  /\ applyPc = "range"
  /\ ops # <<>>
  /\ received' = Append(received, Head(ops))
  /\ ops' = Tail(ops)
  /\ applyPc' = "encode"
  /\ UNCHANGED <<inputs, sigVars, deltaVars, closed, out, decodeVars, faultVars,
                 sharedVars, codecVars>>

\* A Write on a file that was closed fails.
FileOpen(file) == ~file.closed

\* opsEncode.Encode(op): the operation is written to the delta file; the
\* error of Encode, on a closed file, is dropped.
EncoderEncode ==
  /\ mode = "gob"
  /\ applyPc = "encode"
  /\ wrote' = IF FileOpen(wfile) THEN Append(wrote, received[Len(received)]) ELSE wrote
  /\ applyPc' = "range"
  /\ UNCHANGED <<inputs, sigVars, deltaVars, ops, closed, received, out, decodeVars,
                 faultVars, sharedVars, streamVars, writer, wfile, wfn, wLog, toWrite,
                 readVars, patchVars>>

\* The range ends on the closed, drained channel and the goroutine ends.
EncoderEnd ==
  /\ mode = "gob"
  /\ applyPc = "range"
  /\ ops = <<>>
  /\ closed
  /\ applyPc' = "done"
  /\ UNCHANGED <<inputs, sigVars, deltaVars, ops, closed, received, out, decodeVars,
                 faultVars, sharedVars, codecVars>>

\* return rs.CreateDelta(nfFile, hl, ops): CreateDelta has returned, so its
\* last send was received; the deferred deltaFile.Close() runs.
DeltaReturn ==
  /\ mode = "gob"
  /\ deltaPc = "done"
  /\ ops = <<>>
  /\ ~wfile.closed
  /\ wfile' = [wfile EXCEPT !.closed = TRUE]
  /\ UNCHANGED <<inputs, sigVars, deltaVars, ops, closed, applyVars, decodeVars,
                 faultVars, sharedVars, streamVars, writer, wfn, wLog, toWrite, wrote,
                 readVars, patchVars>>

NextGob ==
  \/ CreateSignatureLoop
  \/ CreateDeltaEnter
  \/ CreateDeltaLoop
  \/ EncoderReceive
  \/ EncoderEncode
  \/ EncoderEnd
  \/ DeltaReturn

SpecGob == InitGob /\ [][NextGob]_vars

\* ============================================================ rolling hash
\* The hash step of CreateDelta on its own: the window slides byte by byte
\* over a buffer that holds a first window of BlockSize bytes and the bytes
\* that come in after it; no window matches and no refill is due.
MaxRolls == 3
MaxRollLen == 258
\* Byte values, and window lengths from which the uint32 subtractions of the
\* update wrap: beta2 - len * aPop from 23 bytes of 255 on, beta1 - aPop from
\* 258.
RollBytes == {0, 1, 255}
RollLens == {1, 2, 23, MaxRollLen}

\* CreateDelta before a hash step, with its buffer filled up to validTo: the
\* first window, x and then y throughout, and the bytes that come in.
InitRoll ==
  \E len \in RollLens, x \in RollBytes, y \in RollBytes,
     incoming \in [1..MaxRolls -> RollBytes] :
    /\ mode = "roll" /\ basis = <<>> /\ source = <<>>
    /\ BlockSize = len /\ MaxDataOp = 1
    /\ sigPc = "off" /\ sigRead = 0 /\ index = 0 /\ signature = <<>>
    /\ deltaPc = "off" /\ srcRead = 0
    /\ buffer = [i \in 1..len |-> IF i = 1 THEN x ELSE y] \o incoming
    /\ origin = [i \in 1..(len + MaxRolls) |-> i - 1]
    /\ sc = [ZeroLocals EXCEPT !.validTo = len + MaxRolls]
    /\ ops = <<>> /\ closed = FALSE /\ emitted = <<>> /\ missed = {}
    /\ applyPc = "range" /\ received = <<>> /\ out = <<>>
    /\ decodePc = "off" /\ decoded = 0
    /\ CodecIdle /\ ProtoStart(0, <<>>, "off", FALSE)
    /\ fault = NoFault /\ NoErrors /\ SharedIdle

\* Lines 215 to 225 and 244 to 253 of the loop body, when no hash is found:
\* the window and its weak hash, then aPop and the slide by one byte.
HashStep ==
  /\ mode = "roll"
  /\ sc.sumTail + BlockSize <= sc.validTo
  /\ LET sumHead == min(sc.sumTail + BlockSize, sc.validTo)
         h == IF ~sc.rolling THEN betahash(Slice(buffer, sc.sumTail, sumHead))
              ELSE Roll(sc.b1, sc.b2, sc.aPop, buffer[sumHead], sumHead - sc.sumTail)
     IN sc' = [sc EXCEPT !.sumHead = sumHead, !.b1 = h.b1, !.b2 = h.b2,
                         !.rolling = TRUE, !.dirty = TRUE,
                         !.aPop = buffer[sc.sumTail + 1],
                         !.sumTail = sc.sumTail + 1,
                         !.dataHead = sc.sumTail + 1,
                         !.hashed = TRUE, !.hashTail = sc.sumTail]
  /\ UNCHANGED <<inputs, codecVars, sharedVars, faultVars, sigVars, deltaPc, srcRead,
                 buffer, origin, emitted, missed, ops, closed, applyVars,
                 decodeVars>>

NextRoll == HashStep

SpecRoll == InitRoll /\ [][NextRoll]_vars

\* ================================================================ claims
\* What the claims speak of, stated from the byte sequences themselves.

RECURSIVE Flatten(_, _)
Flatten(seqs, i) == IF i = 0 THEN <<>> ELSE Flatten(seqs, i - 1) \o seqs[i]

\* The bytes of basis block k: [k*B, min((k+1)*B, |basis|)).
BasisBlock(k) ==
  SubSeq(basis, k * BlockSize + 1, min((k + 1) * BlockSize, Len(basis)))

\* beta of the specification: a = sum v[i], b = sum (L - i) v[i] over the
\* 0-based i, both modulo 2^16, as the pair <<a, b>>.
RECURSIVE SpecBetaA(_)
SpecBetaA(v) == IF v = <<>> THEN 0 ELSE Head(v) + SpecBetaA(Tail(v))

RECURSIVE SpecBetaB(_)
SpecBetaB(v) == IF v = <<>> THEN 0 ELSE Len(v) * Head(v) + SpecBetaB(Tail(v))

SpecBeta(v) == <<SpecBetaA(v) % 65536, SpecBetaB(v) % 65536>>

CeilDiv(a, b) == (a + b - 1) \div b

EmittedOps == [i \in 1..Len(emitted) |-> emitted[i].op]
EmittedData ==
  Flatten([i \in 1..Len(emitted) |->
             IF emitted[i].op.Type = "DATA" THEN emitted[i].op.Data ELSE <<>>],
          Len(emitted))
EmittedSrc == Flatten([i \in 1..Len(emitted) |-> emitted[i].src], Len(emitted))
BlockCount == Cardinality({i \in 1..Len(emitted) : emitted[i].op.Type = "BLOCK"})

\* CreateDelta and ApplyDelta have both returned after a run on source.
Synced == mode = "sync" /\ deltaPc = "done" /\ applyPc = "done"

\* C1: signature of the basis, delta of the source, apply against the basis:
\* the bytes written are the source, for every block size in 1..|source|+1.
C1_RoundTrip ==
  (Synced /\ BlockSize <= Len(source) + 1) => out = source

\* C2 as stated: the delta of the basis against its own signature holds only
\* BLOCK operations, ceil(|basis| / block_size) of them.
C2_SelfCopyAllBlocks ==
  (mode = "sync" /\ source = basis /\ deltaPc = "done") =>
    /\ \A i \in 1..Len(emitted) : emitted[i].op.Type = "BLOCK"
    /\ Len(emitted) = CeilDiv(Len(basis), BlockSize)

\* C2 amended: the delta of the basis against its own signature starts with
\* one BLOCK per full basis block, floor(|basis| / block_size) of them, each
\* naming a basis block with the bytes of that block; nothing else is a BLOCK;
\* with |basis| a multiple of block_size there is no DATA operation, and
\* otherwise the short final block goes out as DATA: the DATA payloads, in
\* order, are the last |basis| mod block_size bytes.
C2_SelfCopyFullBlocks ==
  (mode = "sync" /\ source = basis /\ deltaPc = "done") =>
    LET full == Len(basis) \div BlockSize
    IN /\ Len(emitted) >= full
       /\ BlockCount = full
       /\ \A k \in 1..full :
            /\ emitted[k].op.Type = "BLOCK"
            /\ BasisBlock(emitted[k].op.BlockIndex) = BasisBlock(k - 1)
       /\ EmittedData = SubSeq(basis, full * BlockSize + 1, Len(basis))
       /\ (Len(basis) % BlockSize = 0 => Len(emitted) = full)

\* C2's case: a self copy of several full blocks and a short final block has
\* been scanned to the end.
C2_Witness ==
  /\ mode = "sync" /\ source = basis /\ deltaPc = "done"
  /\ Len(basis) > 2 * BlockSize
  /\ Len(basis) % BlockSize # 0
  /\ BlockCount >= 2

\* C3: with an empty signature list the delta of a non-empty source holds
\* only DATA operations, whose payloads in order make up the source.
C3_EmptySignature ==
  (mode = "sync" /\ sigPc = "done" /\ signature = <<>> /\ source # <<>>
     /\ deltaPc = "done") =>
    /\ \A i \in 1..Len(emitted) : emitted[i].op.Type = "DATA"
    /\ EmittedData = source

\* C4: no DATA operation sent by CreateDelta carries more than MaxDataOp bytes.
C4_DataBound ==
  \A i \in 1..Len(emitted) :
    emitted[i].op.Type = "DATA" => Len(emitted[i].op.Data) <= MaxDataOp

\* C5: the records of CreateSignature are, in order, one per basis block:
\* record k has index k and the weak and strong hash of the bytes
\* [k*B, min((k+1)*B, |basis|)), which are B bytes except for a non-empty
\* final block; on return there are ceil(|basis|/B) = BlockHashCount(|basis|)
\* of them.
C5_SignatureRecords ==
  mode = "sync" =>
    /\ \A k \in 1..Len(signature) :
         /\ signature[k].Index = k - 1
         /\ signature[k].WeakHash = SpecBeta(BasisBlock(k - 1))
         /\ signature[k].StrongHash = uniqueHash(BasisBlock(k - 1))
         /\ Len(BasisBlock(k - 1)) \in 1..BlockSize
         /\ (Len(BasisBlock(k - 1)) < BlockSize =>
               k = CeilDiv(Len(basis), BlockSize))
    /\ sigRead = min(Len(signature) * BlockSize, Len(basis))
    /\ (sigPc = "done" =>
          /\ Len(signature) = CeilDiv(Len(basis), BlockSize)
          /\ Len(signature) = BlockHashCount(Len(basis), BlockSize))

\* C5's case: CreateSignature has returned from a basis of at least one full
\* block and a short final block.
C5_Witness ==
  /\ mode = "sync" /\ sigPc = "done"
  /\ Len(signature) >= 2
  /\ Len(basis) % BlockSize # 0

\* C6: a BLOCK(i) is sent only for a window whose strong hash is that of
\* signature entry i, and once CreateDelta has returned, the byte stepped
\* over after a probe that hit on the weak hash and missed on the strong
\* hash has gone out in a DATA operation.
C6_StrongConfirm ==
  /\ \A i \in 1..Len(emitted) :
       emitted[i].op.Type = "BLOCK" =>
         /\ emitted[i].op.BlockIndex < Len(signature)
         /\ signature[emitted[i].op.BlockIndex + 1].StrongHash
              = uniqueHash(emitted[i].window)
  /\ (mode = "sync" /\ deltaPc = "done" =>
        \A p \in missed :
          \E i \in 1..Len(emitted) :
            /\ emitted[i].op.Type = "DATA"
            /\ \E j \in 1..Len(emitted[i].src) : emitted[i].src[j] = p)

\* C7: what ApplyDelta has written is, in the order received, the bytes of
\* each operation: for BLOCK(i) the basis bytes [i*B, min((i+1)*B, |basis|)),
\* for DATA its payload.
Contribution(op) ==
  IF op.Type = "BLOCK" THEN BasisBlock(op.BlockIndex) ELSE op.Data

C7_ApplyConcat ==
  out = Flatten([i \in 1..Len(received) |-> Contribution(received[i])],
                Len(received))

\* C7's case: ApplyDelta has returned after a BLOCK that read the short final
\* block of the basis and a DATA after it.
C7_Witness ==
  /\ mode = "patch" /\ applyPc = "done"
  /\ Len(received) = 2
  /\ received[1].Type = "BLOCK"
  /\ Len(BasisBlock(received[1].BlockIndex)) \in 1..(BlockSize - 1)
  /\ received[2].Type = "DATA"
  /\ received[2].Data # <<>>

\* C8: the source offsets the sent operations stand for, taken in the order
\* of sending, are strictly increasing.
C8_SourceOrder ==
  \A i \in 1..Len(EmittedSrc) :
    \A j \in 1..Len(EmittedSrc) : i < j => EmittedSrc[i] < EmittedSrc[j]

\* C9: for a basis of one full block and a source P \o basis, with P
\* non-empty, free of the block and no longer than MaxDataOp, the delta is
\* DATA(P), BLOCK(0).
C9_PrefixInsert ==
  LET plen == Len(source) - Len(basis)
  IN (/\ mode = "sync" /\ deltaPc = "done"
      /\ Len(basis) = BlockSize
      /\ plen >= 1
      /\ plen <= MaxDataOp
      /\ SubSeq(source, plen + 1, Len(source)) = basis
      /\ \A k \in 0..(plen - 1) : SubSeq(source, k + 1, k + BlockSize) # basis) =>
       EmittedOps = <<DataOp(SubSeq(source, 1, plen)), BlockOp(0)>>

\* C10: a BLOCK names the first entry of the signature list whose weak and
\* strong hash are those of the window.
SameHashes(win) ==
  {j \in 1..Len(signature) :
     /\ signature[j].WeakHash = SpecBeta(win)
     /\ signature[j].StrongHash = uniqueHash(win)}

C10_TieBreak ==
  \A i \in 1..Len(emitted) :
    emitted[i].op.Type = "BLOCK" =>
      LET same == SameHashes(emitted[i].window)
      IN /\ same # {}
         /\ \A j \in same : emitted[i].op.BlockIndex <= signature[j].Index
         /\ \E j \in same : emitted[i].op.BlockIndex = signature[j].Index

\* C10's case: a BLOCK was sent for a window that several entries match.
C10_Witness ==
  \E i \in 1..Len(emitted) :
    /\ emitted[i].op.Type = "BLOCK"
    /\ Cardinality(SameHashes(emitted[i].window)) >= 2


\* C19: the slice Next(needed) returns holds the next min(needed, bytes not
\* yet consumed) bytes of the stream; a slice shorter than needed comes with
\* the error of the stream; and the bytes passed over by Used are, in order,
\* a prefix of the stream.
C19_StreamIntegrity ==
  mode = "sbuffer" =>
    /\ consumed = SubSeq(wire, 1, Len(consumed))
    /\ got.live =>
         /\ got.buff = SubSeq(wire, Len(consumed) + 1,
                              min(Len(consumed) + got.needed, Len(wire)))
         /\ Len(got.buff) < got.needed => got.err # "nil"

\* C19's case: bytes were consumed, the buffer was compacted with unconsumed
\* bytes in it, and Next returned a slice that spans them and newly read ones.
C19_Witness ==
  /\ mode = "sbuffer"
  /\ got.live
  /\ consumed # <<>>
  /\ sb.tail = 0
  /\ Len(got.buff) >= 2
  /\ sb.pos - Len(consumed) = sb.head
  /\ sb.pos = Len(wire)
  /\ Len(wire) > sb.cap

\* The calls of a log before its i-th that were Header calls.
HeaderBefore(log, i) == \E j \in 1..(i - 1) : log[j].fn = "Header"

OnlyFirstHeader(log) ==
  \A i \in 1..Len(log) :
    (log[i].fn = "Header" /\ HeaderBefore(log, i)) =>
      log[i].err = Err("ErrHeaderOnce") /\ log[i].moved = 0

\* C16: on one Writer and on one Reader, every Header call after the first
\* returns ErrHeaderOnce and writes or reads no byte, whether or not the
\* first call succeeded.
C16_HeaderOnce == OnlyFirstHeader(wLog) /\ OnlyFirstHeader(rLog)

\* A Writer whose first Header failed and whose second was refused, and a
\* Reader likewise.
C16_Witness ==
  /\ Len(wLog) >= 2 /\ Len(rLog) >= 2
  /\ wLog[1].fn = "Header" /\ wLog[1].err \notin {Nil, Err("ErrHeaderOnce")}
  /\ wLog[2].fn = "Header" /\ wLog[2].err = Err("ErrHeaderOnce")
  /\ rLog[1].fn = "Header" /\ rLog[1].err \notin {Nil, Err("ErrHeaderOnce")}
  /\ rLog[2].fn = "Header" /\ rLog[2].err = Err("ErrHeaderOnce")

ContentCalls ==
  {"SignatureWriter", "OperationWriter", "ReadAllSignatures", "ReadOperations"}

\* Before the i-th call of the log a Header call of type t returned nil.
HeaderDone(log, i, t) ==
  \E j \in 1..(i - 1) : log[j].fn = "Header" /\ log[j].t = t /\ log[j].err = Nil

ContentAfterHeader(log) ==
  \A i \in 1..Len(log) :
    (log[i].fn \in ContentCalls /\ ~HeaderDone(log, i, log[i].t)) =>
      log[i].err = Panic("ErrInvalidCall") /\ log[i].moved = 0

\* C17: SignatureWriter, OperationWriter, ReadAllSignatures and
\* ReadOperations called before a Header of their stream type has returned
\* nil are rejected with ErrInvalidCall and move no content byte.
C17_HeaderBeforeContent == ContentAfterHeader(wLog) /\ ContentAfterHeader(rLog)

\* The first call on the Writer was a Header that wrote its ten bytes, and
\* the first call on the Reader a Header on a file that starts with them.
HeaderReadBack ==
  /\ Len(wLog) >= 1 /\ wLog[1].fn = "Header" /\ wLog[1].moved = 10
  /\ reader.open /\ wire = wfile.out
  /\ Len(rLog) >= 1 /\ rLog[1].fn = "Header"

\* The first call on the Reader was a Header on a file whose first four
\* bytes are not the magic: it returned ErrBadMagic.
BadMagicReported ==
  (/\ reader.open /\ Len(rLog) >= 1 /\ rLog[1].fn = "Header"
   /\ Len(wire) >= 4 /\ SubSeq(wire, 1, 4) # RsyncMagic)
    => rLog[1].err = Err("ErrBadMagic")

\* C18 as stated: Reader.Header(t) on the bytes of Writer.Header(t', c, bs)
\* returns bs and no error exactly when t = t' and c is none or gzip,
\* ErrBadMagic on another magic, ErrIncorrectType{t, t'} when t' # t, and
\* ErrUnknownCompression when c is neither none nor gzip.
C18_HeaderOutcome ==
  /\ BadMagicReported
  /\ HeaderReadBack =>
       /\ (rLog[1].err = Nil /\ rLog[1].blockSize = wLog[1].blockSize)
            <=> (rLog[1].t = wLog[1].t /\ wLog[1].compression \in {CompNone, CompGZip})
       /\ rLog[1].t # wLog[1].t => rLog[1].err = ErrIncorrectType(rLog[1].t, wLog[1].t)
       /\ wLog[1].compression \notin {CompNone, CompGZip}
            => rLog[1].err = Err("ErrUnknownCompression")

\* C18 amended: the tests are made in the order magic, type, compression,
\* and a gzip stream needs the header of its gzip member: ErrBadMagic on
\* another magic; else ErrIncorrectType{t, t'} when t' # t; else bs and no
\* error when c is none; bs, and no error exactly when the ten bytes of a
\* gzip member header follow (io.EOF when nothing follows), when c is gzip;
\* ErrUnknownCompression for any other c.
C18_HeaderOutcomeInOrder ==
  /\ BadMagicReported
  /\ HeaderReadBack =>
       IF rLog[1].t # wLog[1].t
       THEN rLog[1].err = ErrIncorrectType(rLog[1].t, wLog[1].t)
       ELSE IF wLog[1].compression = CompNone
       THEN rLog[1].err = Nil /\ rLog[1].blockSize = wLog[1].blockSize
       ELSE IF wLog[1].compression = CompGZip
       THEN /\ rLog[1].blockSize = wLog[1].blockSize
            /\ rLog[1].err = Nil <=> Len(wire) >= 20
            /\ Len(wire) = 10 => rLog[1].err = Err("EOF")
       ELSE rLog[1].err = Err("ErrUnknownCompression")

\* A gzip header of block size 0x01020304 read back with the matching type
\* after the Writer was closed.
C18_Witness ==
  /\ HeaderReadBack
  /\ rLog[1].t = wLog[1].t /\ wLog[1].compression = CompGZip
  /\ rLog[1].err = Nil /\ rLog[1].blockSize = 16909060

\* ReadOperations has returned from a delta file that rdiff delta wrote.
OperationsRead == mode = "deltafile" /\ readOps.pc = "done"

\* C13: the operations written with the OperationWriter are the operations
\* ReadOperations delivers, in the same order, the HASH operations on
\* hashOps and the others on ops, however the reader splits the bytes.
C13_OperationRoundTrip == OperationsRead => delivered = wrote /\ readOps.err = Nil

\* ReadAllSignatures has returned from a signature file that rdiff signature
\* wrote.
SignaturesRead == mode = "sigfile" /\ sigs.returned

\* The lengths of the strong hashes written.
HashLengths == {Len(wrote[i].StrongHash) : i \in 1..Len(wrote)}

\* C14: the records written with the SignatureWriter, with strong hashes of
\* up to maxHashLength bytes, are the records ReadAllSignatures returns, in
\* the same order.
C14_SignatureRoundTrip ==
  (SignaturesRead /\ \A n \in HashLengths : n <= maxHashLength) =>
    sigs.bb = wrote /\ sigs.err = Nil

\* The delta file holds no HASH operation.
NoHashWritten == \A i \in 1..Len(wrote) : wrote[i].Type # "HASH"

\* patch was asked to verify, and the decoder and ApplyDelta have finished
\* without an error.
Verifying ==
  /\ mode = "deltafile" /\ patch.checkFile
  /\ readOps.pc = "done" /\ readOps.err = Nil /\ applyPc = "done"

\* C11: with verification requested and no HASH operation in the delta,
\* patch returns NoTargetSumError once the decoder and the applier are done:
\* it has returned it, or its next step returns it.
C11_NoTargetSum ==
  (Verifying /\ NoHashWritten) =>
    \/ patch.pc = "done" /\ patch.err = Err("NoTargetSumError")
    \/ patch.pc = "run" /\ ENABLED PatchReturn

\* The delta file ends in its one HASH operation.
OneTerminalHash ==
  /\ wrote # <<>> /\ wrote[Len(wrote)].Type = "HASH"
  /\ \A i \in 1..(Len(wrote) - 1) : wrote[i].Type # "HASH"

\* C12: with verification requested and a delta that ends in its one HASH
\* operation, patch, once the decoder and the applier are done, returns
\* HashNoMatchError if the digest of the bytes written differs from the
\* Data of the HASH operation and nil if it does not.
C12_HashVerification ==
  (Verifying /\ OneTerminalHash) =>
    /\ patch.pc = "run" => ENABLED PatchReturn
    /\ patch.pc = "done" =>
         (patch.err = Err("HashNoMatchError")
            <=> md5Sum(out) # wrote[Len(wrote)].Data)
         /\ patch.err \in {Nil, Err("HashNoMatchError")}

\* CreateSignature run alone on target with block size bs: its records.
RECURSIVE SignatureFrom(_, _, _, _)
SignatureFrom(target, bs, pos, idx) ==
  LET block == ReadAtLeast(target, pos, bs)
      rec == [Index |-> idx, StrongHash |-> uniqueHash(block),
              WeakHash |-> Beta(betahash(block))]
  IN IF block = <<>> THEN <<>>
     ELSE IF Len(block) < bs THEN <<rec>>
     ELSE <<rec>> \o SignatureFrom(target, bs, pos + Len(block), idx + 1)

AllReturned == mode = "shared" /\ \A k \in 1..Len(calls) : calls[k].pc = "done"

\* C15: two concurrent calls of CreateSignature on one RSync leave it as the
\* caller set it up and write the records each call writes when run alone.
C15_NoInterference ==
  AllReturned =>
    /\ rs = given
    /\ \A k \in 1..Len(calls) :
         calls[k].sigs = SignatureFrom(calls[k].target, rs.BlockSize, 0, 0)

\* C20: when a stream operation fails inside CreateSignature, CreateDelta or
\* ApplyDelta, the routine returns that error at once: it has returned, the
\* error is the one of the stream, and no record, operation or byte was put
\* out after the failure.
C20_ErrorsSurface ==
  fault.hit =>
    IF fault.op \in {"sigRead", "sw"}
    THEN sigPc = "done" /\ sigErr = Err(fault.op) /\ Len(signature) = fault.mark
    ELSE IF fault.op = "srcRead"
    THEN deltaPc = "done" /\ deltaErr = Err(fault.op) /\ Len(emitted) = fault.mark
    ELSE applyPc = "done" /\ applyErr = Err(fault.op) /\ Len(out) = fault.mark

\* C21: the weak hash after an incremental update is betahash of the window
\* moved on by one byte: the old window without its first byte, with the
\* incoming byte at its end.
C21_RollingHash ==
  (mode = "roll" /\ sc.sumTail >= 2) =>
    <<sc.b1, sc.b2>> = Beta(betahash(Slice(buffer, sc.sumTail - 1, sc.sumHead)))

\* C21's case: an update in which both subtractions wrapped: the window before
\* it had beta1 < aPop and beta2 < len * aPop.
C21_Witness ==
  /\ mode = "roll" /\ sc.sumTail >= 2
  /\ LET before == betahash(Slice(buffer, sc.sumTail - 2, sc.sumHead - 1))
     IN /\ before.b1 < sc.aPop
        /\ before.b2 < BlockSize * sc.aPop

\* C22: CreateSignature on an empty basis hands no record to the signature
\* writer and returns no error; CreateDelta on an empty source sends no
\* operation, whatever the signature list, and returns no error.
C22_EmptyInputs ==
  mode = "sync" =>
    /\ (basis = <<>> /\ sigPc = "done") => (signature = <<>> /\ sigErr = Nil)
    /\ source = <<>> => (emitted = <<>> /\ ops = <<>> /\ deltaPc # "panic")
    /\ (source = <<>> /\ deltaPc = "done") => deltaErr = Nil

\* C22's case: both routines have returned, CreateSignature from an empty
\* basis and CreateDelta from an empty source.
C22_Witness ==
  /\ mode = "sync" /\ basis = <<>> /\ source = <<>>
  /\ sigPc = "done" /\ deltaPc = "done" /\ closed

\* C23: when CreateDelta has returned without error, every byte of the source
\* stands in an operation it sent: a byte that no BLOCK covers has gone out
\* in a DATA operation, also when the last read returned no byte.
SentOffsets == {EmittedSrc[i] : i \in 1..Len(EmittedSrc)}

C23_FinalFlush ==
  (mode = "sync" /\ deltaPc = "done" /\ deltaErr = Nil) =>
    \A p \in 0..(Len(source) - 1) : p \in SentOffsets

\* C24: between two iterations of CreateDelta's loop, the source offsets of
\* the operations sent so far, followed by those of the pending literal run,
\* are 0, 1, ... up to the scan position: no source byte is skipped, sent
\* twice or out of place.
\* The pending literal run: buffer[data.tail:data.head], or across a wrap
\* buffer[data.tail:prevValidTo] and then buffer[0:data.head].
PendingSrc ==
  IF sc.dataTail <= sc.dataHead THEN Slice(origin, sc.dataTail, sc.dataHead)
  ELSE Slice(origin, sc.dataTail, sc.prevValidTo) \o Slice(origin, 0, sc.dataHead)

\* The source offset of buffer[sum.tail], the next byte to scan.
ScanPos == srcRead - (sc.validTo - sc.sumTail)

C24_ByteConservation ==
  (mode = "sync" /\ deltaPc = "loop") =>
    EmittedSrc \o PendingSrc = [i \in 1..ScanPos |-> i - 1]

\* C25: no slice or index expression of CreateDelta is out of bounds, and
\* the window of every hash step is buffer[sum.tail:sum.head] with
\* 0 <= sum.tail < sum.head <= validTo and sum.head - sum.tail <= BlockSize.
C25_WindowBounds ==
  mode = "sync" =>
    /\ deltaPc # "panic"
    /\ sc.hashed =>
         /\ 0 <= sc.hashTail
         /\ sc.hashTail < sc.sumHead
         /\ sc.sumHead <= sc.validTo
         /\ sc.sumHead - sc.hashTail <= BlockSize

\* C26: a refill writes over no buffer byte that holds a source byte of the
\* pending literal run, buffer[data.tail:data.head], or across a wrap
\* buffer[data.tail:prevValidTo] and buffer[0:data.head]: such a byte keeps
\* its place until the run is sent.
PendingIdx ==
  IF sc.dataTail <= sc.dataHead THEN (sc.dataTail + 1)..sc.dataHead
  ELSE ((sc.dataTail + 1)..sc.prevValidTo) \cup (1..sc.dataHead)

NoOverwrite ==
  (mode = "sync" /\ deltaPc = "loop" /\ sc.dirty) =>
    \A i \in PendingIdx \cap (1..Len(origin)) :
      origin[i] >= 0 => origin'[i] = origin[i]

C26_NoAliasing == [][NoOverwrite]_vars

\* C27: when CreateDelta has returned after lastRun was set, the iteration
\* that followed sent no BLOCK and ended with the DATA flush, every byte of
\* the source has been sent, and the window left unprobed on lastRun was
\* shorter than BlockSize.
TailNoBlock ==
  sc.hashed => (emitted # <<>> /\ emitted[Len(emitted)].op.Type = "DATA")

TailFlushed == \A p \in 0..(Len(source) - 1) : p \in SentOffsets

TailWindowShort == sc.hashed => sc.sumHead - sc.hashTail < BlockSize

C27_TailHandling ==
  (mode = "sync" /\ deltaPc = "done" /\ deltaErr = Nil /\ sc.lastRun) =>
    (TailNoBlock /\ TailFlushed /\ TailWindowShort)

\* C28: the weak hash with which an iteration of CreateDelta looks up the
\* hash index is betahash of its window buffer[sum.tail:sum.head], whether
\* it was seeded or updated incrementally.
C28_WeakHashValid ==
  (mode = "sync" /\ sc.hashed /\ ~sc.lastRun /\ deltaPc # "panic") =>
    <<sc.b1, sc.b2>> = Beta(betahash(Slice(buffer, sc.hashTail, sc.sumHead)))

\* C29: ReadOperations does not panic at a DATA or HASH operation that
\* declares up to maxDataLength bytes, and it panics with ErrDataTooLong at one
\* that declares more; ReadAllSignatures does not panic on strong hashes of up
\* to maxHashLength bytes and panics with ErrHashTooLong on a longer one.
\* The record the decoder of operations is at, from its first byte on.
AtRecord == Slice(sb.backer, sb.tail, sb.head)

\* That record is a DATA or HASH operation with a whole head.
AtDataHead ==
  /\ Len(AtRecord) >= 2
  /\ AtRecord[1] \in {OpData, OpHash}
  /\ Uvarint(Tail(AtRecord)).n > 0

DeclaredLength == Uvarint(Tail(AtRecord)).v

C29_LengthBound ==
  /\ (mode = "deltafile" /\ readOps.pc = "panic" /\ AtDataHead) =>
       (DeclaredLength > maxDataLength /\ readOps.err = Panic("ErrDataTooLong"))
  /\ (mode = "deltafile" /\ readOps.pc = "done" /\ AtDataHead) =>
       DeclaredLength <= maxDataLength
  /\ (mode = "sigfile" /\ sigs.returned) =>
       IF \A n \in HashLengths : n <= maxHashLength
       THEN ~sigs.err.panic
       ELSE sigs.err = Panic("ErrHashTooLong")

\* The operations the producer has sent, or is sending, on ops: those of
\* CreateDelta, those ReadOperations decoded (HASH operations go to hashOps),
\* those of the decoder of the patch family.
SentOnOps ==
  IF mode = "deltafile" THEN SelectSeq(delivered, LAMBDA o : o.Type # "HASH")
  ELSE IF mode = "sync" THEN [i \in 1..Len(emitted) |-> emitted[i].op]
  ELSE received \o ops

\* The producer runs: CreateDelta, the goroutine of patch.
ProducerRuns == deltaPc = "loop" \/ decodePc = "loop" \/ readOps.pc = "loop"

\* ops is closed by a step that ends the producer, and stays closed.
ClosedByProducer ==
  /\ closed => closed'
  /\ (~closed /\ closed') => (ProducerRuns /\ ~ProducerRuns')

\* What the consumer has received is the head of what was sent, and a range
\* loop that has ended has received all of it from a closed channel.
ReceivedInOrder ==
  /\ Len(received) <= Len(SentOnOps)
  /\ received = SubSeq(SentOnOps, 1, Len(received))
  /\ (applyPc = "done" /\ applyErr = Nil) =>
       (closed /\ ~ProducerRuns /\ received = SentOnOps)

\* C30: the producer closes ops once, on its way out; the consumer receives
\* the operations sent in their order; and once the producer runs, ApplyDelta
\* comes to its end.
C30_PipelineClosure ==
  /\ [][ClosedByProducer]_vars
  /\ []ReceivedInOrder
  /\ (ProducerRuns ~> applyPc = "done")

\* The cursors of the buffer are in order.
CursorsInOrder == 0 <= sb.tail /\ sb.tail <= sb.head /\ sb.head <= sb.cap

\* C31: whatever Next and Used calls were made, the cursors satisfy
\* 0 <= tail <= head <= capacity unless the last call panicked; Next(n) panics
\* with ErrNeedCap exactly when n > capacity and Used(k) panics with
\* ErrUsedTooMuch exactly when k > head - tail; and every Read of the read
\* loop of Next was given a slice of at least one byte.
C31_CursorInvariant ==
  mode = "cursor" =>
    /\ ~BufferPanicked => CursorsInOrder
    /\ got.fn = "Next" => (got.err = "ErrNeedCap" <=> got.needed > got.before.cap)
    /\ got.fn = "Used" =>
         (got.err = "ErrUsedTooMuch" <=> got.used > got.before.head - got.before.tail)
    /\ \A i \in 1..Len(got.rooms) : got.rooms[i] >= 1

\* C31's case: a Next on a buffer that holds unconsumed bytes short of its
\* end, which compacts and reads more than once, after a Used that took fewer
\* bytes than the buffer held.
C31_Witness ==
  /\ mode = "cursor"
  /\ got.fn = "Next" /\ got.err = "nil"
  /\ got.before.tail > 0 /\ got.before.tail < got.before.head
  /\ got.before.tail + got.needed > got.before.cap
  /\ Len(got.rooms) >= 2
  /\ sb.head = sb.cap

\* C32: once delta has returned and the delta file is closed, every
\* operation CreateDelta sent is encoded in the delta file, in order.
C32_EncodedBeforeReturn ==
  (mode = "gob" /\ wfile.closed) =>
    wrote = [i \in 1..Len(emitted) |-> emitted[i].op]

====
